---- MODULE Spec2Model ----
(***************************************************************************)
(* A state-machine model of flask-restless-ng: the pagination engine, the  *)
(* collection serializer, the default serializer and deserializer, the     *)
(* inclusion resolver and the create (POST) handler.                       *)
(*                                                                         *)
(* Each subsystem has its own variables, initial predicate and next-state  *)
(* relation; a specification of one subsystem holds the variables of the   *)
(* others at their idle values.                                            *)
(***************************************************************************)
EXTENDS Integers, Sequences, FiniteSets, TLC

VARIABLES
    \* ---- pagination (manager.py, APIManager.paginate) ----
    query,          \* the query handed to paginate: result rows, grouping
    page_size,      \* query_parameters.page_size of the session
    dialect,        \* how the storage engine treats a negative OFFSET
    paginated,      \* what the last call of paginate returned or raised
    page_number,    \* query_parameters.page_number of the last call
    collected,      \* items of the pages a client walked, concatenated
    walk,           \* the next page number of the walk 1, 2, ..., last
    walk_last,      \* `last` as returned by the latest page of the walk
    pag_request,    \* page[number] and page[size] of the latest request
    \* ---- collection serializer (manager.py, APIManager.serialize_many) ----
    instances,      \* the collection: what serializing each instance does
    sm_next,        \* the position of the loop in `instances`
    sm_result,      \* the local list `result`
    sm_errors,      \* the local list `errors`
    sm_attempted,   \* the instances self.serialize was called on, in order
    sm_outcome,     \* what serialize_many returned or raised
    \* ---- inclusion resolver (helpers.py, get_inclusions_for_instances) ----
    graph,          \* the object graph: the value of every relationship
    include,        \* the include paths of the request
    roots,          \* the instances the resolver was called with
    inc_node,       \* the node of the inclusion tree the loop is at
    inc_pending,    \* the keys of that node the for loop has yet to visit
    inc_instances,  \* the local `instances`: the frontier of that node
    inc_stack,      \* the local `stack`
    inc_result,     \* the union of the sets yielded so far
    inc_trace,      \* the tree nodes read so far, in order
    inc_pc,         \* "run" while the generator runs, "done" once exhausted
    \* ---- default serializer (serialization.py, DefaultSerializer) ----
    serializer,     \* the arguments the serializer was constructed with
    include_links,  \* APIManager.include_links
    ser_instance,   \* the instance serialize is called on
    ser_only,       \* the `only` argument of the call
    ser_resource,   \* what serialize returned
    \* ---- default deserializer (serialization.py, DefaultDeserializer) ----
    document,       \* the document a client sent
    allow_client_generated_ids,  \* the deserializer's flag of that name
    des_outcome,    \* what deserialize raised or returned
    des_resource,   \* the returned instance, serialized
    \* ---- creating resources (POST on a collection) ----
    person_table,   \* the committed rows of the person table
    session_new,    \* session.new: the instances added and not yet flushed
    is_active,      \* session.is_active
    post_log,       \* the requests served: name, status, the state left
    \* ---- fetching (manager.py, get_resource and get_collection) ----
    fetch_table,    \* the primary keys of the stored rows of the model
    fetch_request,  \* the latest fetch: what it asked for
    fetch_response, \* what the view function returned or raised
    \* ---- routing (manager.py, APIManager.create_api_blueprint) ----
    routes,         \* the URL rules of the blueprint, in the order added
    linked,         \* the articles the relationship of person 1 holds
    route_response, \* the latest request and what the routing did with it
    \* ---- registry (manager.py, APIManager.create_api and init_app) ----
    manager_app,    \* self.app
    created_apis_for,  \* self.created_apis_for, in the order of its keys
    blueprints,     \* self.blueprints: the names of the blueprints
    registered,     \* per application, the blueprints registered on it
    inits           \* the init_app calls made: the application, the blueprints then created

pagVars == <<query, page_size, dialect, paginated, page_number, collected, walk, walk_last,
             pag_request>>

smVars == <<instances, sm_next, sm_result, sm_errors, sm_attempted, sm_outcome>>

incVars == <<graph, include, roots, inc_node, inc_pending, inc_instances, inc_stack,
             inc_result, inc_trace, inc_pc>>

serVars == <<serializer, include_links, ser_instance, ser_only, ser_resource>>

desVars == <<document, allow_client_generated_ids, des_outcome, des_resource>>

postVars == <<person_table, session_new, is_active, post_log>>

fetchVars == <<fetch_table, fetch_request, fetch_response>>

routeVars == <<routes, linked, route_response>>

regVars == <<manager_app, created_apis_for, blueprints, registered, inits>>

vars == <<pagVars, smVars, incVars, serVars, desVars, postVars, fetchVars, routeVars, regVars>>

\* what an action of one subsystem leaves alone: the other subsystems
notPag == <<smVars, incVars, serVars, desVars, postVars, fetchVars, routeVars,
    regVars>>

notSm == <<pagVars, incVars, serVars, desVars, postVars, fetchVars, routeVars,
    regVars>>

notInc == <<pagVars, smVars, serVars, desVars, postVars, fetchVars, routeVars,
    regVars>>

notSer == <<pagVars, smVars, incVars, desVars, postVars, fetchVars, routeVars,
    regVars>>

notDes == <<pagVars, smVars, incVars, serVars, postVars, fetchVars, routeVars,
    regVars>>

notPost == <<pagVars, smVars, incVars, serVars, desVars, fetchVars, routeVars,
    regVars>>

notFetch == <<pagVars, smVars, incVars, serVars, desVars, postVars, routeVars, regVars>>

notRoute == <<pagVars, smVars, incVars, serVars, desVars, postVars, fetchVars, regVars>>

notReg == <<pagVars, smVars, incVars, serVars, desVars, postVars, fetchVars, routeVars>>

(***************************************************************************)
(* Python values                                                           *)
(***************************************************************************)

\* Python's None, and a value that is not None.  A tuple keeps None apart
\* from every integer and string.
None == <<>>

Some(x) == <<x>>

Min(a, b) == IF a < b THEN a ELSE b

Max(a, b) == IF a > b THEN a ELSE b

\* int(math.ceil(a / b)) for a >= 0, b > 0
Ceil(a, b) == (a + b - 1) \div b

\* the set {s[i]} of the elements of a sequence
Range(s) == {s[i] : i \in DOMAIN s}

(***************************************************************************)
(* Pagination                                                              *)
(***************************************************************************)

\* the most result rows a modelled query has
MaxRows == 3

\* the largest page size a request carries
MaxPageSize == 3

\* the largest page number a request carries
MaxPage == 4

\* the most table rows one group of a grouped query aggregates
MaxGroup == 2

\* The result rows of a query, in the order of its sort: sort=id or sort=-id.
RowOrders(n) == {[i \in 1..n |-> i], [i \in 1..n |-> n + 1 - i]}

\* Every query search() can hand to paginate.  rows: the rows query.all()
\* returns, in order.  group_by: whether the query carries a GROUP BY
\* clause.  gsize[i]: the number of table rows that result row i stands for
\* (1 for every row of a query without GROUP BY).
Queries ==
    UNION {
        { [rows |-> r, group_by |-> FALSE, gsize |-> [i \in 1..n |-> 1]] : r \in RowOrders(n) }
        \cup
        { [rows |-> r, group_by |-> TRUE, gsize |-> g] : r \in RowOrders(n), g \in [1..n -> 1..MaxGroup] }
        : n \in 0..MaxRows }

\* query.all()
All(q) == q.rows

\* query.limit(limit).offset(offset).all() for offset >= 0
LimitOffset(q, limit, offset) ==
    SubSeq(q.rows, offset + 1, Min(offset + limit, Len(q.rows)))

\* query.order_by(None).count(): SELECT count(*) FROM (<query>), the number
\* of rows the query returns
QueryCount(q) == Len(q.rows)

\* session.execute(counts.order_by(None)).scalar(): the first column of the
\* first row of SELECT count(..) FROM .. [GROUP BY ..], None when the
\* statement returns no row.  Without GROUP BY the statement returns one
\* row, the number of table rows (the first column is the primary key, never
\* NULL).  With GROUP BY it returns one row per group, each the size of its
\* group, in no order the code fixes: any group may come first.
CountScalar(q) ==
    IF ~q.group_by THEN {Some(Len(q.rows))}
    ELSE IF Len(q.rows) = 0 THEN {None}
    ELSE {Some(q.gsize[i]) : i \in 1..Len(q.rows)}

\* count(session, query): the values it can return.  The queries built by
\* search() carry no LIMIT, so the first branch is not taken.
count(q) ==
    {IF num_results = None THEN QueryCount(q) ELSE num_results[1] : num_results \in CountScalar(q)}

\* mutant: the first page gets a previous page too (> written as >=)
PrevPage_Mutant(pn) == IF pn >= 1 THEN Some(pn - 1) ELSE None

\* prev = page_number - 1 if page_number > 1 else None
PrevPage(pn) == IF pn > 1 THEN Some(pn - 1) ELSE None

\* next_ = page_number + 1 if page_number < last else None
NextPage(pn, last) == IF pn < last THEN Some(pn + 1) ELSE None

\* last = 1 if num_results == 0 else int(math.ceil(num_results / page_size))
LastPage(num_results, ps) == IF num_results = 0 THEN 1 ELSE Ceil(num_results, ps)

\* mutant: the result of a disabled pagination names a first page
PaginatedAll_Mutant(items, ps) ==
    [kind |-> "paginated", items |-> items, num_results |-> Len(items),
     first |-> Some(1), last |-> None, prev |-> None, next_ |-> None, page_size |-> ps]

\* Paginated(items, page_size=.., num_results=..): the page links default
\* to None
PaginatedAll(items, ps) ==
    [kind |-> "paginated", items |-> items, num_results |-> Len(items),
     first |-> None, last |-> None, prev |-> None, next_ |-> None, page_size |-> ps]

\* Paginated(items, num_results=.., first=.., last=.., next_=.., prev=.., page_size=..)
PaginatedPage(items, num_results, pn, ps) ==
    [kind |-> "paginated", items |-> items, num_results |-> num_results,
     first |-> Some(1), last |-> Some(LastPage(num_results, ps)),
     prev |-> PrevPage(pn), next_ |-> NextPage(pn, LastPage(num_results, ps)),
     page_size |-> ps]

\* The storage engine refused the statement (a negative OFFSET on an engine
\* that does not clamp it): paginate raises and returns nothing.
DatabaseError == [kind |-> "error"]

\* What paginate(query, query_parameters) can return or raise.
paginate(q, ps, pn, clamps) ==
    IF ps = 0 THEN {PaginatedAll(All(q), ps)}
    ELSE LET offset == (pn - 1) * ps IN
         IF offset < 0 /\ ~clamps THEN {DatabaseError}
         ELSE LET items == LimitOffset(q, ps, Max(offset, 0)) IN
              IF pn = 1 /\ Len(items) < ps
              THEN {PaginatedPage(items, Len(items), pn, ps)}
              ELSE {PaginatedPage(items, n, pn, ps) : n \in count(q)}

NoCall == [kind |-> "none"]

PagInit ==
    /\ query \in Queries
    /\ page_size \in 0..MaxPageSize
    /\ dialect \in {"clamps_negative_offset", "rejects_negative_offset"}
    /\ paginated = NoCall
    /\ page_number = 1
    /\ collected = <<>>
    /\ walk = 1
    /\ walk_last = 1
    /\ pag_request = [number |-> 1, size |-> page_size]

\* A collection fetch of any page: get_collection calls paginate with the
\* page number and page size of the request.
GetCollection(pn) ==
    /\ \E p \in paginate(query, page_size, pn, dialect = "clamps_negative_offset") :
           paginated' = p
    /\ page_number' = pn
    /\ pag_request' = [number |-> pn, size |-> page_size]
    /\ UNCHANGED <<query, page_size, dialect, collected, walk, walk_last>>
    /\ UNCHANGED notPag

\* A client that reads the collection page by page: it fetches page 1 and
\* then every page up to the `last` the latest answer named.
WalkPage ==
    /\ page_size > 0
    /\ walk <= walk_last
    /\ \E p \in paginate(query, page_size, walk, dialect = "clamps_negative_offset") :
           /\ paginated' = p
           /\ collected' = collected \o p.items
           /\ walk_last' = p.last[1]
    /\ page_number' = walk
    /\ pag_request' = [number |-> walk, size |-> page_size]
    /\ walk' = walk + 1
    /\ UNCHANGED <<query, page_size, dialect>>
    /\ UNCHANGED notPag

\* max_page_size of create_api: the largest page size a client may ask for
max_page_size == MaxPageSize

\* the answer 400 Bad Request: no page of items
BadRequest == [kind |-> "BadRequest", status |-> 400]

\* mutant: a page size above max_page_size is let through
BadParameters_Mutant(pn, ps) == ps < 0 \/ pn < 0

\* The page parameters the view refuses before it builds the query: a
\* negative page size, a page size above max_page_size, a negative page
\* number.
BadParameters(pn, ps) == ps < 0 \/ ps > max_page_size \/ pn < 0

\* the page sizes of the requests, besides the one the client keeps to
OtherPageSizes == {0 - 1, max_page_size + 1}

\* the page numbers of the requests the view checks: a negative one, the
\* first page and a later one
RequestedPages == {0 - 1, 1, MaxPage}

\* GET on the collection with page[number]=pn and page[size]=ps: the view
\* answers 400 to refused parameters and otherwise calls get_collection,
\* which paginates with them.
FetchCollection(pn, ps) ==
    /\ ps \in {page_size} \cup OtherPageSizes
    /\ pag_request' = [number |-> pn, size |-> ps]
    /\ IF BadParameters(pn, ps)
       THEN /\ paginated' = BadRequest
            /\ UNCHANGED <<page_size, page_number>>
       ELSE /\ \E p \in paginate(query, ps, pn, dialect = "clamps_negative_offset") :
                   paginated' = p
            /\ page_size' = ps
            /\ page_number' = pn
    /\ UNCHANGED <<query, dialect, collected, walk, walk_last>>
    /\ UNCHANGED notPag

PagNext ==
    \/ \E pn \in 0..MaxPage : GetCollection(pn)
    \/ WalkPage
    \/ \E pn \in RequestedPages, ps \in (0 - 1)..(MaxPageSize + 1) : FetchCollection(pn, ps)

PagIdle ==
    /\ query = [rows |-> <<>>, group_by |-> FALSE, gsize |-> <<>>]
    /\ page_size = 0
    /\ dialect = "clamps_negative_offset"
    /\ paginated = NoCall
    /\ page_number = 1
    /\ collected = <<>>
    /\ walk = 1
    /\ walk_last = 1
    /\ pag_request = [number |-> 1, size |-> 0]

(***************************************************************************)
(* Collection serializer: APIManager.serialize_many                        *)
(***************************************************************************)

\* the most instances a modelled collection has
MaxInstances == 4

\* What self.serialize(instance) does: it returns a resource object, or the
\* serializer raises SerializationException, or the lookup of the model's
\* serializer or collection name raises ValueError (manager.py line 863).
SerializeBehaviours == {"ok", "SerializationException", "ValueError"}

\* the resource object of the instance at position i
ResourceOf(i) == [type |-> "person", id |-> i]

\* the SerializationException raised for the instance at position i
ExceptionOf(i) == [exception |-> "SerializationException", instance |-> i]

SmInit ==
    /\ instances \in UNION {[1..n -> SerializeBehaviours] : n \in 0..MaxInstances}
    /\ sm_next = 1
    /\ sm_result = <<>>
    /\ sm_errors = <<>>
    /\ sm_attempted = <<>>
    /\ sm_outcome = NoCall

SmIdle ==
    /\ instances = <<>>
    /\ sm_next = 1
    /\ sm_result = <<>>
    /\ sm_errors = <<>>
    /\ sm_attempted = <<>>
    /\ sm_outcome = NoCall

\* mutant: the loop stops collecting at the first SerializationException
AppendError_Mutant(errors, i) == IF errors = <<>> THEN Append(errors, ExceptionOf(i)) ELSE errors

\* the local list `result` after the loop body ran on the instance at i
AppendResult(result, i) == Append(result, ResourceOf(i))

\* the local list `errors` after the instance at i raised
AppendError(errors, i) == Append(errors, ExceptionOf(i))

\* One iteration of `for instance in instances`: try self.serialize,
\* except SerializationException.  Any other exception leaves the loop and
\* serialize_many.
SerializeManyStep ==
    /\ sm_outcome = NoCall
    /\ sm_next <= Len(instances)
    /\ sm_attempted' = Append(sm_attempted, sm_next)
    /\ CASE instances[sm_next] = "ok" ->
              /\ sm_result' = AppendResult(sm_result, sm_next)
              /\ UNCHANGED <<sm_errors, sm_outcome>>
         [] instances[sm_next] = "SerializationException" ->
              /\ sm_errors' = AppendError(sm_errors, sm_next)
              /\ UNCHANGED <<sm_result, sm_outcome>>
         [] instances[sm_next] = "ValueError" ->
              /\ sm_outcome' = [kind |-> "ValueError", errors |-> <<>>, result |-> None]
              /\ UNCHANGED <<sm_result, sm_errors>>
    /\ sm_next' = sm_next + 1
    /\ UNCHANGED instances
    /\ UNCHANGED notSm

\* After the loop: raise MultipleExceptions(errors) if errors, else return
\* result.
SerializeManyEnd ==
    /\ sm_outcome = NoCall
    /\ sm_next > Len(instances)
    /\ sm_outcome' = IF sm_errors # <<>>
                     THEN [kind |-> "MultipleExceptions", errors |-> sm_errors, result |-> None]
                     ELSE [kind |-> "return", errors |-> <<>>, result |-> Some(sm_result)]
    /\ UNCHANGED <<instances, sm_next, sm_result, sm_errors, sm_attempted>>
    /\ UNCHANGED notSm

SmNext == SerializeManyStep \/ SerializeManyEnd


(***************************************************************************)
(* Inclusion resolver: get_inclusions_for_instances, get_inclusions        *)
(***************************************************************************)

\* the longest include path of a request, in relationships
MaxDepth == 3

\* the most include paths of a request
MaxInclude == 2

\* The models of the object graph and their relationships.
Articles == {"a1", "a2"}

Persons == {"p1", "p2"}

Comments == {"c1"}

Objects == Articles \cup Persons \cup Comments

\* type(instance)
ModelOf(o) ==
    IF o \in Articles THEN "article" ELSE IF o \in Persons THEN "person" ELSE "comment"

\* The relationships of each model: name -> [target, uselist].
\* article.author (to-one), article.comments (to-many), person.articles
\* (to-many, the other side of article.author), comment.author (to-one).
Relationships(model) ==
    CASE model = "article" -> {"author", "comments"}
      [] model = "person" -> {"articles"}
      [] model = "comment" -> {"author"}
      [] model = "tag" -> {}

\* get_related_model(model, relationname)
RelatedModel(model, rel) ==
    CASE model = "article" /\ rel = "author" -> "person"
      [] model = "article" /\ rel = "comments" -> "comment"
      [] model = "person" /\ rel = "articles" -> "article"
      [] model = "comment" /\ rel = "author" -> "person"

\* the `uselist` of the relationship property
UseList(model, rel) ==
    CASE model = "article" /\ rel = "author" -> FALSE
      [] model = "article" /\ rel = "comments" -> TRUE
      [] model = "person" /\ rel = "articles" -> TRUE
      [] model = "comment" /\ rel = "author" -> FALSE

\* is_like_list(instance, relation)
is_like_list(instance, relation) == UseList(ModelOf(instance), relation)

\* The object graphs: each article has an author or none, the comment
\* belongs to article a1 or none and has author p2 or none; person.articles
\* is the other side of article.author.  g[o][rel] is the set of the objects
\* related to o by rel (at most one for a to-one relationship).
Graphs ==
    { [o \in Objects |->
         [rel \in Relationships(ModelOf(o)) |->
            CASE o \in Articles /\ rel = "author" -> author[o]
              [] o \in Articles /\ rel = "comments" -> IF o = "a1" THEN c_article ELSE {}
              [] o \in Persons /\ rel = "articles" -> {a \in Articles : author[a] = {o}}
              [] o \in Comments /\ rel = "author" -> c_author ]]
      : author \in [Articles -> {{}, {"p1"}, {"p2"}}],
        c_article \in {{}, {"c1"}},
        c_author \in {{}, {"p2"}} }

\* getattr(instance, key): None or the related instance for a to-one
\* relationship, the collection (possibly empty) for a to-many one
GetAttr(g, instance, key) ==
    IF is_like_list(instance, key) THEN g[instance][key]
    ELSE IF g[instance][key] = {} THEN None
    ELSE Some(CHOOSE o \in g[instance][key] : TRUE)

\* mutant: only the empty collection is skipped, None is not
Falsy_Mutant(g, instance, key) ==
    is_like_list(instance, key) /\ GetAttr(g, instance, key) = {}

\* `not included_instance` for the value of getattr(instance, key): None
\* and the empty collection are falsy
Falsy(g, instance, key) ==
    IF is_like_list(instance, key) THEN GetAttr(g, instance, key) = {}
    ELSE GetAttr(g, instance, key) = None

\* The relationship paths that exist from a model, up to n relationships
\* long: what a request may name in `include`.
RECURSIVE ValidPaths(_, _)
ValidPaths(model, n) ==
    IF n = 0 THEN {}
    ELSE UNION { {<<rel>>} \cup {<<rel>> \o p : p \in ValidPaths(RelatedModel(model, rel), n - 1)}
                 : rel \in Relationships(model) }

\* the include sets of a request on the article collection
IncludeSets == {inc \in SUBSET ValidPaths("article", MaxDepth) : Cardinality(inc) <= MaxInclude}

\* mutant: only the whole of each path makes a node, its prefixes do not
InclusionTree_Mutant(inc) == inc

\* The inclusion tree built from the paths (path.split('.') is the sequence
\* of the names): one node per distinct non-empty prefix; a node is named
\* by the path that leads to it, the root by <<>>.
InclusionTree(inc) == UNION {{SubSeq(path, 1, k) : k \in 1..Len(path)} : path \in inc}

\* the keys of the dictionary at a node
Keys(tree, node) ==
    {p[Len(p)] : p \in {q \in tree : Len(q) = Len(node) + 1 /\ SubSeq(q, 1, Len(node)) = node}}

\* what new_instances.add(included_instance) adds: the related instance,
\* or None itself were a None to come this far
Added(included_instance) ==
    IF included_instance = None THEN "None" ELSE included_instance[1]

\* new_instances after the inner loop over `instances` for `key`
NewInstances(g, insts, key) ==
    UNION { IF Falsy(g, instance, key) THEN {}
            ELSE IF is_like_list(instance, key) THEN GetAttr(g, instance, key)
            ELSE {Added(GetAttr(g, instance, key))}
            : instance \in insts }

\* getattr(instance, key) raises AttributeError when `instance` is not an
\* object of a model (None has no relationships)
GetAttrRaises(insts) == \E instance \in insts : instance \notin Objects

IncInit ==
    /\ graph \in Graphs
    /\ include \in IncludeSets
    /\ roots \in SUBSET Articles
    /\ inc_node = <<>>
    /\ inc_pending = Keys(InclusionTree(include), <<>>)
    /\ inc_instances = roots
    /\ inc_stack = <<>>
    /\ inc_result = {}
    /\ inc_trace = <<>>
    /\ inc_pc = "run"

IncIdle ==
    /\ graph = [o \in Objects |-> [rel \in Relationships(ModelOf(o)) |-> {}]]
    /\ include = {}
    /\ roots = {}
    /\ inc_node = <<>>
    /\ inc_pending = {}
    /\ inc_instances = {}
    /\ inc_stack = <<>>
    /\ inc_result = {}
    /\ inc_trace = <<>>
    /\ inc_pc = "done"

\* One iteration of `for key, sub_tree in inclusion_tree.items()`: collect
\* new_instances, push (sub_tree, new_instances) when both are non-empty,
\* yield new_instances (the caller adds them to the result set).  An
\* exception of getattr ends the generator.
IncludeKey ==
    /\ inc_pc = "run"
    /\ \E key \in inc_pending :
         IF GetAttrRaises(inc_instances)
         THEN /\ inc_pc' = "error"
              /\ UNCHANGED <<inc_stack, inc_result, inc_trace, inc_pending>>
         ELSE LET sub_tree == Append(inc_node, key)
                  new_instances == NewInstances(graph, inc_instances, key)
              IN /\ inc_stack' = IF Keys(InclusionTree(include), sub_tree) # {}
                                    /\ new_instances # {}
                                 THEN Append(inc_stack, <<sub_tree, new_instances>>)
                                 ELSE inc_stack
                 /\ inc_result' = inc_result \cup new_instances
                 /\ inc_trace' = Append(inc_trace, sub_tree)
                 /\ inc_pending' = inc_pending \ {key}
                 /\ UNCHANGED inc_pc
    /\ UNCHANGED <<graph, include, roots, inc_node, inc_instances>>
    /\ UNCHANGED notInc

\* mutant: the stack gives its oldest item, as a queue does
Popped_Mutant(stack) == [item |-> stack[1], rest |-> SubSeq(stack, 2, Len(stack))]

\* stack.pop() of a list: the item appended last, and the list without it
Popped(stack) ==
    [item |-> stack[Len(stack)], rest |-> SubSeq(stack, 1, Len(stack) - 1)]

\* mutant: the item is read and left on the stack
Remaining_Mutant(stack) == stack

\* the stack after stack.pop()
Remaining(stack) == Popped(stack).rest

\* After the for loop: stop when the stack is empty, else pop the next
\* (inclusion_tree, instances) and loop again.
IncludePop ==
    /\ inc_pc = "run"
    /\ inc_pending = {}
    /\ IF inc_stack = <<>>
       THEN /\ inc_pc' = "done"
            /\ UNCHANGED <<inc_node, inc_pending, inc_instances, inc_stack>>
       ELSE LET top == Popped(inc_stack).item IN
            /\ inc_node' = top[1]
            /\ inc_instances' = top[2]
            /\ inc_pending' = Keys(InclusionTree(include), top[1])
            /\ inc_stack' = Remaining(inc_stack)
            /\ UNCHANGED inc_pc
    /\ UNCHANGED <<graph, include, roots, inc_result, inc_trace>>
    /\ UNCHANGED notInc

IncNext == IncludeKey \/ IncludePop

(***************************************************************************)
(* The models of a registered API, and the values of their fields          *)
(***************************************************************************)

\* A Python value of a field, tagged by its type so that None, a string,
\* an integer, a date, a SQL function and a bound method stay apart.  The
\* same records, with the tags "null", "str" and "int" only, are the JSON
\* values of a document.
NoneValue == [t |-> "null", v |-> ""]

PyStr(s) == [t |-> "str", v |-> s]

PyInt(s) == [t |-> "int", v |-> s]

PyDate(s) == [t |-> "date", v |-> s]

PyFunc(s) == [t |-> "func", v |-> s]

PyMethod(s) == [t |-> "method", v |-> s]

\* str(value)
StrOf(value) == IF value.t = "null" THEN "None" ELSE value.v

\* `not value`: None, 0 and the empty string are falsy
IsFalsy(value) ==
    \/ value.t = "null"
    \/ value.t = "int" /\ value.v = "0"
    \/ value.t = "str" /\ value.v = ""

\* inspected_model.column_attrs.keys(): the mapped columns of a model
ColumnAttrs(model) ==
    CASE model = "article" -> {"id", "title", "date_created", "author_id"}
      [] model = "person" -> {"id", "name"}
      [] model = "comment" -> {"id", "author_id", "article_id"}
      [] model = "tag" -> {"name", "id"}

\* attributes that are not columns: plain methods of the model, which a
\* serializer renders when named in additional_attributes
Methods(model) == IF model = "article" THEN {"summary"} ELSE {}

\* the hybrid properties of a model; none of them has a setter
HybridProperties(model) == IF model = "article" THEN {"is_draft"} ELSE {}

PyBool(s) == [t |-> "bool", v |-> s]

\* the value of article.is_draft: whether the article has no date yet
is_draft(date_created) == IF date_created = NoneValue THEN PyBool("True") ELSE PyBool("False")

\* attribute_columns(model): the columns and the hybrid properties
attribute_columns(model) == ColumnAttrs(model) \cup HybridProperties(model)

\* foreign_keys(model)
foreign_keys(model) ==
    CASE model = "article" -> {"author_id"}
      [] model = "person" -> {}
      [] model = "comment" -> {"author_id", "article_id"}
      [] model = "tag" -> {}

\* primary_key_names(model): the primary key of a tag is its name, and its
\* id is a plain column
primary_key_names(model) == IF model = "tag" THEN {"name"} ELSE {"id"}

\* get_field_type(model, fieldname), for a column
FieldType(model, fieldname) ==
    IF fieldname = "date_created" THEN "Date"
    ELSE IF fieldname \in {"title", "name"} THEN "Unicode"
    ELSE "Integer"

\* has_field(model, fieldname): a hybrid property counts if it has a
\* setter; any other name counts if the model has an attribute of that
\* name, whatever its kind
has_field(model, fieldname) ==
    IF fieldname \in HybridProperties(model) THEN FALSE
    ELSE fieldname \in ColumnAttrs(model) \cup Relationships(model) \cup Methods(model)

\* get_related_model(model, relationname): None unless the attribute is a
\* relationship
get_related_model(model, relationname) ==
    IF relationname \in Relationships(model) THEN Some(RelatedModel(model, relationname))
    ELSE None

\* The models create_api was called for, with the default collection name,
\* primary key and URL prefix.
RegisteredModels == {"article", "person", "comment", "tag"}

\* APIManager.collection_name(model)
collection_name(model) == model

\* mutant: the column named id is taken for the primary key of every model
primary_key_for_Mutant(model) == "id"

\* APIManager.primary_key_for(model): the primary key create_api chose,
\* 'id' if it is a primary key, else the first primary key
primary_key_for(model) ==
    IF "id" \in primary_key_names(model) THEN "id"
    ELSE CHOOSE name \in primary_key_names(model) : TRUE

\* APIManager.url_prefix_for(model)
url_prefix_for(model) == "/api"

\* APIManager.url_for(model, resource_id=..., relation_name=...,
\* relationship=...): the segments of the URL.  relation_name is None or
\* Some(name).
url_for(model, resource_id, relation_name, relationship) ==
    LET url_for_collection == <<url_prefix_for(model), collection_name(model)>> IN
    IF IsFalsy(resource_id) THEN url_for_collection
    ELSE IF relation_name = None THEN url_for_collection \o <<StrOf(resource_id)>>
    ELSE IF relationship
         THEN url_for_collection \o <<StrOf(resource_id), "relationships", relation_name[1]>>
    ELSE url_for_collection \o <<StrOf(resource_id), relation_name[1]>>

\* urljoin(request.url_root, path) for an absolute path
urljoin(url_root, path) == <<url_root>> \o path

\* An instance of a model: the value of every column and method, and for
\* every relationship the related instances in order (at most one, or none
\* for None, when the relationship is to-one).  A related instance is named
\* by its model and primary key value.
Related(model, pk) == [model |-> model, pk |-> pk]

\* The rows of the session the related resources are looked up in.
SessionRows == {Related("person", PyInt("1")), Related("comment", PyInt("1")),
                Related("comment", PyInt("2"))}

(***************************************************************************)
(* Default serializer (serialization.py, DefaultSerializer)                *)
(***************************************************************************)

\* The keyword arguments only, exclude and additional_attributes of the
\* constructor, each None or Some(set of names).
ConfigOnly == {None, Some({"title"}), Some({"title", "author", "self"}), Some({"comments"})}

ConfigExclude == {None, Some({"title"}), Some({"author", "date_created"})}

\* additional_attributes: a method of the model, and names that are taken
\* already: the primary key column and a relationship
ConfigAdditional == {None, Some({"summary"}), Some({"id"}), Some({"author"})}

\* DefaultSerializer.__init__ raises ValueError for these arguments
InitRaises(cfg) ==
    \/ cfg.only # None /\ cfg.exclude # None
    \/ /\ cfg.additional_attributes # None
       /\ cfg.exclude # None
       /\ cfg.additional_attributes[1] \cap cfg.exclude[1] # {}

Serializers ==
    {cfg \in [model : {"article", "tag"}, only : ConfigOnly, exclude : ConfigExclude,
              additional_attributes : ConfigAdditional] : ~InitRaises(cfg)}

\* the serializer create_api makes when given no keyword argument
DefaultSerializerFor(model) ==
    [model |-> model, only |-> None, exclude |-> None, additional_attributes |-> None]

\* self._columns after __init__
SerializerColumns(cfg) ==
    LET columns0 == attribute_columns(cfg.model) \ {"type", "id"}
        columns1 == IF cfg.additional_attributes # None
                    THEN columns0 \cup cfg.additional_attributes[1] ELSE columns0
        columns2 == IF cfg.only # None THEN columns1 \cap cfg.only[1] ELSE columns1
        columns3 == IF cfg.exclude # None THEN columns2 \ cfg.exclude[1] ELSE columns2
    IN columns3 \ foreign_keys(cfg.model)

\* self._relations after __init__
SerializerRelations(cfg) ==
    LET relations0 == Relationships(cfg.model)
        relations1 == IF cfg.only # None THEN relations0 \cap cfg.only[1] ELSE relations0
    IN IF cfg.exclude # None THEN relations1 \ cfg.exclude[1] ELSE relations1

\* `columns` of serialize: the copy of self._columns, narrowed by `only`
SparseColumns(cfg, only) ==
    IF only # None THEN SerializerColumns(cfg) \cap only[1] ELSE SerializerColumns(cfg)

\* mutant: the relationships are not narrowed by `only`
SparseRelations_Mutant(cfg, only) == SerializerRelations(cfg)

\* `relations` of serialize: the copy of self._relations, narrowed by `only`
SparseRelations(cfg, only) ==
    IF only # None THEN SerializerRelations(cfg) \cap only[1] ELSE SerializerRelations(cfg)

\* The value rendered for an attribute: a callable is called, a date is
\* given in ISO format, anything else is left as it is.
Rendered(value) ==
    LET called == IF value.t = "method" THEN PyStr(value.v) ELSE value
    IN IF called.t = "date" THEN PyStr(called.v) ELSE called

\* APIManager.serialize_relationship(instance): a resource identifier
serialize_relationship(related) ==
    [id |-> Some(StrOf(related.pk)), type |-> Some(collection_name(related.model))]

\* A linkage, in a document and in a rendered relationship alike: null, one
\* resource identifier, or a list of them.
Linkage(k, items) == [k |-> k, items |-> items]

\* mutant: a to-many relationship that holds nothing is rendered as null
create_relationship_Mutant(cfg, with_links, instance, relation) ==
    LET related_value == instance.rels[relation]
        data == IF related_value = <<>> THEN Linkage("null", <<>>)
                ELSE IF UseList(cfg.model, relation)
                THEN Linkage("many", [i \in DOMAIN related_value |->
                                         serialize_relationship(related_value[i])])
                ELSE Linkage("one", <<serialize_relationship(related_value[1])>>)
        pk_value == instance.attrs[primary_key_for(cfg.model)]
    IN IF with_links
       THEN [links |-> [self |-> url_for(cfg.model, pk_value, Some(relation), TRUE),
                        related |-> url_for(cfg.model, pk_value, Some(relation), FALSE)],
             data |-> data]
       ELSE [data |-> data]

\* DefaultSerializer.create_relationship(instance, relation)
create_relationship(cfg, with_links, instance, relation) ==
    LET pk_value == instance.attrs[primary_key_for(cfg.model)]
        self_link == url_for(cfg.model, pk_value, Some(relation), TRUE)
        related_link == url_for(cfg.model, pk_value, Some(relation), FALSE)
        related_value == instance.rels[relation]
        data == IF UseList(cfg.model, relation)
                THEN Linkage("many", [i \in DOMAIN related_value |->
                                         serialize_relationship(related_value[i])])
                ELSE IF related_value # <<>>
                THEN Linkage("one", <<serialize_relationship(related_value[1])>>)
                ELSE Linkage("null", <<>>)
    IN IF with_links
       THEN [links |-> [self |-> self_link, related |-> related_link], data |-> data]
       ELSE [data |-> data]

\* a dictionary without keys
EmptyDict == [k \in {} |-> k]

\* an object that is neither a string, a number, a date nor a callable
PyObject(s) == [t |-> "object", v |-> s]

\* hasattr(instance, name)
HasAttr(instance, name) == name \in DOMAIN instance.attrs \cup DOMAIN instance.rels

\* getattr(instance, name): the value of a column, hybrid property or
\* method, or what a relationship holds: None, the related instance or the
\* collection of the related instances
GetAttribute(instance, name) ==
    IF name \in DOMAIN instance.attrs THEN instance.attrs[name]
    ELSE IF UseList(instance.model, name) THEN PyObject("list")
    ELSE IF instance.rels[name] = <<>> THEN NoneValue
    ELSE PyObject(StrOf(instance.rels[name][1].pk))

\* getattr(instance, column) raises AttributeError for a name the
\* constructor took from additional_attributes and the model does not have
SerializeRaises(cfg, instance, only) ==
    \E column \in SparseColumns(cfg, only) : ~HasAttr(instance, column)

\* DefaultSerializer.serialize(instance, only): the resource object
serialize(cfg, with_links, instance, only) ==
    LET columns == SparseColumns(cfg, only)
        attributes == [column \in columns |-> Rendered(GetAttribute(instance, column))]
        relations == SparseRelations(cfg, only)
        instance_id == instance.attrs[primary_key_for(cfg.model)]
        path == url_for(cfg.model, instance_id, None, FALSE)
    IN [id |-> StrOf(instance.attrs[primary_key_for(cfg.model)]),
        type |-> collection_name(cfg.model)]
       @@ (IF columns # {} THEN [attributes |-> attributes] ELSE EmptyDict)
       @@ (IF relations # {}
           THEN [relationships |->
                    [rel \in relations |-> create_relationship(cfg, with_links, instance, rel)]]
           ELSE EmptyDict)
       @@ (IF /\ with_links
              /\ (cfg.only = None \/ "self" \in cfg.only[1])
              /\ (only = None \/ "self" \in only[1])
           THEN [links |-> [self |-> urljoin("http://localhost", path)]]
           ELSE EmptyDict)

\* The instances the serializer is called on: articles with and without a
\* title, a date, an author and comments; primary key 0 is a legal key.
ArticleInstances ==
    { [model |-> "article",
       attrs |-> [id |-> id, title |-> title, date_created |-> date_created,
                  author_id |-> IF author = <<>> THEN NoneValue ELSE author[1].pk,
                  summary |-> PyMethod("a summary"), is_draft |-> is_draft(date_created)],
       rels |-> [author |-> author, comments |-> comments]]
      : id \in {PyInt("0"), PyInt("1")},
        title \in {NoneValue, PyStr("foo")},
        date_created \in {NoneValue, PyDate("2010-01-01")},
        author \in {<<>>, <<Related("person", PyInt("1"))>>},
        comments \in {<<>>, <<Related("comment", PyInt("2")), Related("comment", PyInt("1"))>>} }

\* tags: the primary key is a string, which may be empty; the id column
\* holds a number or none
TagInstances ==
    { [model |-> "tag", attrs |-> [name |-> name, id |-> id], rels |-> EmptyDict]
      : name \in {PyStr("foo"), PyStr("")}, id \in {NoneValue, PyInt("1")} }

\* the instances of a model a serializer of that model is called on
InstancesOf(model) == IF model = "tag" THEN TagInstances ELSE ArticleInstances

\* the names a sparse field set of a request may list
FieldNames ==
    {"id", "title", "date_created", "author_id", "summary", "is_draft", "author", "comments",
     "self"}

\* `only` of a call: None (no sparse field set for the type) or a set
OnlySets == {None} \cup {Some(s) : s \in SUBSET FieldNames}

NoResource == [kind |-> "none", resource |-> EmptyDict]

SerInit ==
    /\ serializer \in Serializers
    /\ include_links \in BOOLEAN
    /\ ser_instance \in InstancesOf(serializer.model)
    /\ ser_only = None
    /\ ser_resource = NoResource

\* the serializer when another subsystem runs
SerIdle ==
    /\ serializer = DefaultSerializerFor("article")
    /\ include_links = FALSE
    /\ ser_instance = CHOOSE i \in ArticleInstances : TRUE
    /\ ser_only = None
    /\ ser_resource = NoResource

\* serializer.serialize(instance, only=only)
Serialize ==
    /\ ser_resource = NoResource
    /\ \E only \in OnlySets :
         /\ ser_only' = only
         /\ ser_resource' =
                IF SerializeRaises(serializer, ser_instance, only)
                THEN [kind |-> "AttributeError", resource |-> EmptyDict]
                ELSE [kind |-> "resource",
                      resource |-> serialize(serializer, include_links, ser_instance, only)]
    /\ UNCHANGED <<serializer, include_links, ser_instance>>
    /\ UNCHANGED notSer

SerNext == Serialize

(***************************************************************************)
(* Default deserializer (serialization.py, DefaultDeserializer and         *)
(* DefaultRelationshipDeserializer)                                        *)
(***************************************************************************)

\* the longest list of resource identifiers in a to-many linkage
MaxLinkage == 2

\* A resource identifier object of a linkage: each of id and type is absent
\* (None) or a string.
Rid(id, type) == [id |-> id, type |-> type]

\* A relationship object of a document: with or without a `data` member.
Link(linkage) == [has_data |-> TRUE, data |-> linkage]

LinkWithoutData == [has_data |-> FALSE, data |-> Linkage("null", <<>>)]

\* A document: whether it has `data`, and the members of `data`: type and
\* id (absent or a string), attributes and relationships (a dictionary,
\* empty when the member is absent), and the other members, of which a
\* document sent by a client has none.
Document(type, id, attributes, relationships) ==
    [has_data |-> TRUE, type |-> type, id |-> id, attributes |-> attributes,
     relationships |-> relationships, members |-> EmptyDict]

DocumentWithoutData ==
    [has_data |-> FALSE, type |-> None, id |-> None, attributes |-> EmptyDict,
     relationships |-> EmptyDict, members |-> EmptyDict]

\* an optional member: absent (None) or one of the values
Optional(values) == {None} \cup {Some(value) : value \in values}

\* the dictionary of the members that are present
DictOf(members) ==
    [k \in {key \in DOMAIN members : members[key] # None} |-> members[k][1]]

\* An exception: its class and the attributes its constructor sets.
Exception(kind, relation_name, expected_type, given_type, field) ==
    [kind |-> kind, relation_name |-> relation_name, expected_type |-> expected_type,
     given_type |-> given_type, field |-> field]

\* MissingData(relation_name), MissingID(...), MissingType(...)
MissingInformation(kind, relation_name) == Exception(kind, relation_name, None, None, None)

\* ConflictingType(expected_type, given_type, relation_name)
ConflictingType(expected_type, given_type, relation_name) ==
    Exception("ConflictingType", relation_name, Some(expected_type), Some(given_type), None)

\* UnknownRelationship(field), UnknownAttribute(field)
UnknownField(kind, field) == Exception(kind, None, None, None, Some(field))

ClientGeneratedIDNotAllowed == Exception("ClientGeneratedIDNotAllowed", None, None, None, None)

\* an exception that is no DeserializationException: TypeError, KeyError,
\* AttributeError
PythonError(kind) == Exception(kind, None, None, None, None)

\* the subclasses of DeserializationException
DeserializationExceptions ==
    {"MissingData", "MissingType", "MissingID", "ConflictingType", "UnknownRelationship",
     "UnknownAttribute", "ClientGeneratedIDNotAllowed"}

\* get_by(session, model, pk_value, primary_key): the row whose primary key
\* equals the given string once the storage engine has cast it, or None
get_by(model, pk_value) ==
    LET found == {row \in SessionRows : row.model = model /\ StrOf(row.pk) = pk_value}
    IN IF found = {} THEN None ELSE Some(CHOOSE row \in found : TRUE)

\* What deserializing a linkage gives: an exception, or the value: a list
\* of rows, or one row or None (a sequence of one or no row).
LinkRaises(exception) == [exc |-> Some(exception), is_list |-> FALSE, value |-> <<>>]

LinkValue(is_list, value) == [exc |-> None, is_list |-> is_list, value |-> value]

\* DefaultRelationshipDeserializer.deserialize(data) for data that is not a
\* list and not None
DeserializeIdentifier(related_model, relation_name, data) ==
    LET type_name == collection_name(related_model) IN
    IF data.id = None THEN LinkRaises(MissingInformation("MissingID", Some(relation_name)))
    ELSE IF data.type = None
    THEN LinkRaises(MissingInformation("MissingType", Some(relation_name)))
    ELSE IF data.type[1] # type_name
    THEN LinkRaises(ConflictingType(relation_name, type_name, Some(data.type[1])))
    ELSE LinkValue(FALSE, get_by(related_model, data.id[1]))

\* a row that stands for None in a list of related instances
NoneRow == Related("NoneType", NoneValue)

\* DefaultRelationshipDeserializer.deserialize(data): `'id' not in None` is
\* a TypeError; a list is deserialized element by element and the first
\* exception ends the call.
DeserializeLinkage(related_model, relation_name, linkage) ==
    IF linkage.k = "null" THEN LinkRaises(PythonError("TypeError"))
    ELSE IF linkage.k = "one"
    THEN DeserializeIdentifier(related_model, relation_name, linkage.items[1])
    ELSE LET each == [i \in DOMAIN linkage.items |->
                         DeserializeIdentifier(related_model, relation_name, linkage.items[i])]
             failing == {i \in DOMAIN each : each[i].exc # None}
         IN IF failing # {}
            THEN each[CHOOSE i \in failing : \A j \in failing : i <= j]
            ELSE LinkValue(TRUE, [i \in DOMAIN each |->
                                     IF each[i].value = <<>> THEN NoneRow ELSE each[i].value[1]])

\* The body of the loop over links.items() for one relationship object:
\* MissingData, then collection_name(related_model), a KeyError when the key
\* names no relationship, then the relationship deserializer.
DeserializeLink(model, link_name, link_object) ==
    IF ~link_object.has_data THEN LinkRaises(MissingInformation("MissingData", Some(link_name)))
    ELSE IF get_related_model(model, link_name) = None THEN LinkRaises(PythonError("KeyError"))
    ELSE DeserializeLinkage(get_related_model(model, link_name)[1], link_name, link_object.data)

\* the strings dateutil's parser is given, and the date each stands for
DateStrings == {"2010-01-01", "1 Jan 2010", "2011-02-03"}

\* parse_datetime(value).date(), named by its ISO format
parse_datetime(value) ==
    CASE value \in {"2010-01-01", "1 Jan 2010"} -> "2010-01-01"
      [] value = "2011-02-03" -> "2011-02-03"

CURRENT_TIME_MARKERS == {"CURRENT_TIMESTAMP", "CURRENT_DATE", "LOCALTIMESTAMP"}

\* value.lower() of a marker
Lower(value) ==
    CASE value = "CURRENT_TIMESTAMP" -> "current_timestamp"
      [] value = "CURRENT_DATE" -> "current_date"
      [] value = "LOCALTIMESTAMP" -> "localtimestamp"

\* string_to_datetime(model, fieldname, value)
string_to_datetime(model, fieldname, value) ==
    IF value = NoneValue THEN value
    ELSE IF FieldType(model, fieldname) = "Date"
    THEN IF value.v = "" THEN NoneValue
         ELSE IF value.v \in CURRENT_TIME_MARKERS THEN PyFunc(Lower(value.v))
         ELSE PyDate(parse_datetime(value.v))
    ELSE value

\* self.model(**data): every column is None, every to-many relationship
\* empty and every to-one relationship None, but for the keyword arguments
Construct(model, data) ==
    [model |-> model,
     attrs |-> [name \in attribute_columns(model) \cup Methods(model) |->
                  IF name \in HybridProperties(model)
                  THEN is_draft(IF "date_created" \in DOMAIN data THEN data["date_created"]
                                ELSE NoneValue)
                  ELSE IF name \in DOMAIN data THEN data[name]
                  ELSE IF name \in Methods(model) THEN PyMethod("a summary")
                  ELSE NoneValue],
     rels |-> [rel \in Relationships(model) |-> <<>>]]

\* What a call of deserialize did: the exception it raised or the instance
\* it returned, whether self.model(**data) was called, and the document as
\* the call left it.
Raised(exception, constructed, left) ==
    [kind |-> "raised", exception |-> exception, constructed |-> constructed,
     instance |-> None, document |-> left]

Returned(instance, left) ==
    [kind |-> "returned", exception |-> PythonError("none"), constructed |-> TRUE,
     instance |-> Some(instance), document |-> left]

\* setattr(instance, relation_name, related_value) raises for a list given
\* to a to-one relationship and for a single value given to a to-many one
SetattrRaises(model, relation_name, related_value) ==
    UseList(model, relation_name) # related_value.is_list

\* DefaultDeserializer.deserialize(document): every outcome the call can
\* have, one for each order in which the dictionaries of the document can
\* list their keys.
deserialize(model, allow_ids, doc) ==
    IF ~doc.has_data
    THEN {Raised(MissingInformation("MissingData", None), FALSE, doc)}
    ELSE IF doc.type = None
    THEN {Raised(MissingInformation("MissingType", None), FALSE, doc)}
    ELSE IF doc.id # None /\ ~allow_ids
    THEN {Raised(ClientGeneratedIDNotAllowed, FALSE, doc)}
    ELSE
    LET type_ == doc.type[1]
        expected_type == collection_name(model)
        popped_type == [doc EXCEPT !.type = None]
        unknown == {UnknownField("UnknownRelationship", relation) :
                        relation \in {r \in DOMAIN doc.relationships : ~has_field(model, r)}}
                   \cup {UnknownField("UnknownAttribute", attribute) :
                        attribute \in {a \in DOMAIN doc.attributes : ~has_field(model, a)}}
        popped_links == [popped_type EXCEPT !.relationships = EmptyDict]
        links == [link_name \in DOMAIN doc.relationships |->
                     DeserializeLink(model, link_name, doc.relationships[link_name])]
        failing == {link_name \in DOMAIN links : links[link_name].exc # None}
        moved == [popped_links EXCEPT !.attributes = EmptyDict,
                                      !.members = doc.attributes @@ doc.members]
        keywords == moved.members
                    @@ (IF doc.id # None THEN [id |-> PyStr(doc.id[1])] ELSE EmptyDict)
        data == [k \in DOMAIN keywords |-> string_to_datetime(model, k, keywords[k])]
        instance == Construct(model, data)
        unsettable == {link_name \in DOMAIN links :
                           SetattrRaises(model, link_name, links[link_name])}
    IN IF type_ # expected_type
       THEN {Raised(ConflictingType(expected_type, type_, None), FALSE, popped_type)}
       ELSE IF unknown # {}
       THEN {Raised(exception, FALSE, popped_type) : exception \in unknown}
       ELSE IF failing # {}
       THEN {Raised(links[link_name].exc[1], FALSE, popped_links) : link_name \in failing}
       ELSE IF unsettable # {}
       THEN {Raised(PythonError(IF UseList(model, link_name) THEN "TypeError"
                                ELSE "AttributeError"), TRUE, moved)
             : link_name \in unsettable}
       ELSE {Returned([instance EXCEPT !.rels = [rel \in DOMAIN instance.rels |->
                            IF rel \in DOMAIN links THEN links[rel].value ELSE <<>>]],
                      moved)}

\* The linkage of a to-one relationship in the documents: the person that
\* exists, one that does not, and identifiers that lack id or type or name
\* another type.
AuthorIdentifiers ==
    {Rid(Some("1"), Some("person")), Rid(Some("9"), Some("person")), Rid(None, Some("person")),
     Rid(Some("1"), None), Rid(None, None), Rid(Some("1"), Some("comment"))}

\* the identifiers in the linkage of a to-many relationship
CommentIdentifiers ==
    {Rid(Some("1"), Some("comment")), Rid(Some("2"), Some("comment")),
     Rid(None, Some("comment")), Rid(Some("1"), Some("person"))}

\* the sequences over `values` of at most n elements
SeqUpTo(values, n) == UNION {[1..len -> values] : len \in 0..n}

AuthorLinks ==
    {LinkWithoutData, Link(Linkage("null", <<>>)),
     Link(Linkage("many", <<Rid(Some("1"), Some("person"))>>))}
    \cup {Link(Linkage("one", <<rid>>)) : rid \in AuthorIdentifiers}

CommentLinks ==
    {LinkWithoutData, Link(Linkage("null", <<>>)),
     Link(Linkage("one", <<Rid(Some("1"), Some("comment"))>>))}
    \cup {Link(Linkage("many", items)) : items \in SeqUpTo(CommentIdentifiers, MaxLinkage)}

\* a relationship object under a key that names no relationship
OtherLinks == {LinkWithoutData, Link(Linkage("null", <<>>))}

\* Documents that exercise the checks: every combination of a type that is
\* absent, right or wrong, an id, a known or unknown attribute, and
\* relationship objects under the keys author, comments, title (a column)
\* and bogus (no field at all); is_draft is a hybrid property without a
\* setter.
CheckedDocuments ==
    {DocumentWithoutData} \cup
    { Document(type, id, attributes, DictOf(relationships)) :
        type \in {None, Some("article"), Some("person")},
        id \in {None, Some("7")},
        attributes \in {EmptyDict, [title |-> PyStr("foo")], [bogus |-> PyStr("x")],
                        [is_draft |-> PyBool("True")],
                        [bogus |-> PyStr("x"), is_draft |-> PyBool("True")]},
        relationships \in [author : Optional(AuthorLinks), comments : Optional(CommentLinks),
                           title : Optional(OtherLinks), bogus : Optional(OtherLinks)] }

\* Documents that the checks accept, with every kind of attribute value and
\* of linkage to resources that exist or do not.
CreateDocuments ==
    { Document(Some("article"), id, DictOf(attributes), DictOf(relationships)) :
        id \in {None, Some("7")},
        attributes \in [title : Optional({NoneValue, PyStr("foo")}),
                        date_created : Optional({NoneValue, PyStr(""), PyStr("CURRENT_DATE")}
                                                \cup {PyStr(s) : s \in DateStrings}),
                        author_id : Optional({PyInt("1")})],
        relationships \in
            [author : Optional({Link(Linkage("one", <<Rid(Some(i), Some("person"))>>))
                                : i \in {"1", "9"}}),
             comments : Optional({Link(Linkage("many", items)) :
                                  items \in SeqUpTo({Rid(Some(i), Some("comment")) : i \in {"1", "2"}},
                                                    MaxLinkage)})] }

Documents == CheckedDocuments \cup CreateDocuments

NotCalled == Raised(PythonError("none"), FALSE, DocumentWithoutData)

DesInit ==
    /\ document \in Documents
    /\ allow_client_generated_ids \in BOOLEAN
    /\ des_outcome = NotCalled
    /\ des_resource = NoResource

\* the deserializer when another subsystem runs
DesIdle ==
    /\ document = DocumentWithoutData
    /\ allow_client_generated_ids = FALSE
    /\ des_outcome = NotCalled
    /\ des_resource = NoResource

\* deserializer.deserialize(document)
Deserialize ==
    /\ des_outcome = NotCalled
    /\ des_outcome' \in deserialize("article", allow_client_generated_ids, document)
    /\ UNCHANGED <<document, allow_client_generated_ids, des_resource>>
    /\ UNCHANGED notDes

\* serializer.serialize(instance) for the instance deserialize returned,
\* with the serializer create_api makes by default
SerializeDeserialized ==
    /\ des_outcome.kind = "returned"
    /\ des_resource = NoResource
    /\ des_resource' = [kind |-> "resource",
                        resource |-> serialize(DefaultSerializerFor("article"), FALSE,
                                               des_outcome.instance[1], None)]
    /\ UNCHANGED <<document, allow_client_generated_ids, des_outcome>>
    /\ UNCHANGED notDes

DesNext == Deserialize \/ SerializeDeserialized

(***************************************************************************)
(* Creating resources: POST on the person collection, whose `name` is      *)
(* unique (the handler commits, and rolls back on an integrity error)      *)
(***************************************************************************)

\* the most POST requests one session serves
MaxPosts == 4

\* the values of the `name` attribute in the requests
PersonNames == {"foo", "bar", "baz"}

\* the names of the rows of the person table
NamesOf(table) == {row.name : row \in table}

\* session.add(instance): the instance is pending
session_add(name, pending) == pending \cup {name}

\* the flush of session.commit() raises IntegrityError when a pending
\* instance repeats the unique name of a row
IntegrityError(table, pending) == pending \cap NamesOf(table) # {}

\* the rows after session.commit() flushed the pending instance: the
\* primary key is assigned by the storage engine
Committed(table, name) == table \cup {[id |-> Cardinality(table) + 1, name |-> name]}

\* mutant: the handler answers 409 without rolling the transaction back:
\* the instance stays pending and the session inactive
session_rollback_Mutant(pending) == [new |-> pending, is_active |-> FALSE]

\* session.rollback(): the pending instances are expunged and the session
\* is active again
session_rollback(pending) == [new |-> {}, is_active |-> TRUE]

PostInit ==
    /\ person_table \in {{}, {[id |-> 1, name |-> "foo"]}}
    /\ session_new = {}
    /\ is_active = TRUE
    /\ post_log = <<>>

\* the session when another subsystem runs
PostIdle ==
    /\ person_table = {}
    /\ session_new = {}
    /\ is_active = TRUE
    /\ post_log = <<>>

\* What POST /api/person answers to a well-formed document with the given
\* name: 201 when the commit succeeds; 409 after rolling back when the
\* flush raises IntegrityError; a session left inactive by a failed flush
\* refuses to flush until it is rolled back, an error no handler
\* translates.
Post ==
    /\ Len(post_log) < MaxPosts
    /\ \E name \in PersonNames :
         LET pending == session_add(name, session_new)
             entry(status, table, new, active) ==
                 [name |-> name, status |-> status, before |-> person_table,
                  after |-> table, new |-> new, is_active |-> active]
         IN IF ~is_active
            THEN /\ post_log' = Append(post_log, entry(500, person_table, pending, FALSE))
                 /\ session_new' = pending
                 /\ UNCHANGED <<person_table, is_active>>
            ELSE IF IntegrityError(person_table, pending)
            THEN LET rolled == session_rollback(pending) IN
                 /\ post_log' = Append(post_log, entry(409, person_table, rolled.new,
                                                       rolled.is_active))
                 /\ session_new' = rolled.new
                 /\ is_active' = rolled.is_active
                 /\ UNCHANGED person_table
            ELSE /\ person_table' = Committed(person_table, name)
                 /\ post_log' = Append(post_log, entry(201, Committed(person_table, name),
                                                       {}, TRUE))
                 /\ session_new' = {}
                 /\ UNCHANGED is_active
    /\ UNCHANGED notPost

PostNext == Post

(***************************************************************************)
(* Fetching (manager.py, APIManager.get_resource and get_collection)       *)
(***************************************************************************)

\* the most rows the table of the fetched model holds
MaxStored == 3

\* the field names a filter object of the request carries
FilterFields == {"age", "bogus"}

\* What search(session, model, filters=.., sort=.., group_by=..) does: it
\* returns a query, whose rows are any of the stored rows, or it raises
\* ComparisonToNull or UnknownField for a field of a filter, or it raises
\* something else.
SearchOutcome(kind, rows, field) == [kind |-> kind, rows |-> rows, field |-> field]

SearchOutcomes(table) ==
    {SearchOutcome("query", rows, "") : rows \in SUBSET table}
    \cup {SearchOutcome(kind, {}, field) :
              kind \in {"ComparisonToNull", "UnknownField"}, field \in FilterFields}
    \cup {SearchOutcome("Exception", {}, "")}

\* an exception of exceptions.py: its class, status_code and detail
APIError(kind, status_code, detail) ==
    [kind |-> kind, status_code |-> status_code, detail |-> detail]

\* class NotFound(APIError): status_code = 404
NotFound(detail) == APIError("NotFound", 404, detail)

\* str(exception) of a ComparisonToNull: the message search() gave it
ComparisonToNullMessage(field) == <<"Cannot compare a field to NULL with this operator", field>>

\* mutant: the handler of any other exception is left out, the exception
\* reaches the caller as it is
ConstructionFailure_Mutant(outcome) ==
    IF outcome.kind = "ComparisonToNull"
    THEN APIError("BadRequest", BadRequest.status, ComparisonToNullMessage(outcome.field))
    ELSE IF outcome.kind = "UnknownField"
    THEN APIError("BadRequest", BadRequest.status,
                  <<"Invalid filter object: No such field", outcome.field>>)
    ELSE APIError("Exception", 500, <<>>)

\* the except clauses around search(): what get_collection raises for what
\* search() raised
ConstructionFailure(outcome) ==
    IF outcome.kind = "ComparisonToNull"
    THEN APIError("BadRequest", BadRequest.status, ComparisonToNullMessage(outcome.field))
    ELSE IF outcome.kind = "UnknownField"
    THEN APIError("BadRequest", BadRequest.status,
                  <<"Invalid filter object: No such field", outcome.field>>)
    ELSE APIError("BadRequest", BadRequest.status, <<"Unable to construct query">>)

\* mutant: the first row is taken when several rows match
one_Mutant(rows) ==
    IF rows = {} THEN [raised |-> "NoResultFound", row |-> 0]
    ELSE [raised |-> "", row |-> CHOOSE r \in rows : \A o \in rows : r <= o]

\* query.one(): the only row of the query; NoResultFound when there is no
\* row, MultipleResultsFound when there are several
one(rows) ==
    IF rows = {} THEN [raised |-> "NoResultFound", row |-> 0]
    ELSE IF Cardinality(rows) > 1 THEN [raised |-> "MultipleResultsFound", row |-> 0]
    ELSE [raised |-> "", row |-> CHOOSE r \in rows : TRUE]

\* the rows of a query in the order of their primary keys
Ascending(rows) ==
    CHOOSE s \in [1..Cardinality(rows) -> rows] : \A i, j \in 1..Cardinality(rows) : i < j => s[i] < s[j]

\* the query search() returned, as paginate takes it
QueryOf(rows) ==
    [rows |-> Ascending(rows), group_by |-> FALSE, gsize |-> [i \in 1..Cardinality(rows) |-> 1]]

\* what a view function raised, and the document it returned: `data` holds
\* the primary keys of the resources of result['data']
FetchRaised(exception) ==
    [kind |-> "raised", exception |-> exception, has_data |-> FALSE, data |-> <<>>, total |-> 0]

FetchReturned(data, total) ==
    [kind |-> "returned", exception |-> APIError("", 0, <<>>), has_data |-> TRUE,
     data |-> data, total |-> total]

NoFetch == [kind |-> "none", exception |-> APIError("", 0, <<>>), has_data |-> FALSE,
            data |-> <<>>, total |-> 0]

NoRequest == [view |-> "", resource_id |-> 0, search |-> SearchOutcome("", {}, ""), single |-> FALSE]

FetchInit ==
    /\ fetch_table \in SUBSET (1..MaxStored)
    /\ fetch_request = NoRequest
    /\ fetch_response = NoFetch

\* no fetch when another subsystem runs
FetchIdle ==
    /\ fetch_table = {}
    /\ fetch_request = NoRequest
    /\ fetch_response = NoFetch

\* get_resource(model, resource_id): get_by returns the stored row of that
\* primary key or None
GetResource(resource_id) ==
    /\ fetch_request' = [view |-> "get_resource", resource_id |-> resource_id,
                         search |-> SearchOutcome("", {}, ""), single |-> FALSE]
    /\ fetch_response' = IF resource_id \notin fetch_table
                         THEN FetchRaised(NotFound(<<"No resource with ID", resource_id>>))
                         ELSE FetchReturned(<<resource_id>>, 1)
    /\ UNCHANGED fetch_table
    /\ UNCHANGED notFetch

\* get_collection(model, query_parameters): the search, then a page of the
\* collection, or the one resource of a single-result search
SearchCollection(outcome, single) ==
    /\ fetch_request' = [view |-> "get_collection", resource_id |-> 0,
                         search |-> outcome, single |-> single]
    /\ IF outcome.kind # "query"
       THEN fetch_response' = FetchRaised(ConstructionFailure(outcome))
       ELSE IF ~single
       THEN \E p \in paginate(QueryOf(outcome.rows), max_page_size, 1, TRUE) :
                fetch_response' = FetchReturned(p.items, p.num_results)
       ELSE LET found == one(outcome.rows) IN
            fetch_response' =
                IF found.raised = "NoResultFound" THEN FetchRaised(NotFound(<<"No result found">>))
                ELSE IF found.raised = "MultipleResultsFound"
                THEN FetchRaised(NotFound(<<"Multiple results found">>))
                ELSE FetchReturned(<<found.row>>, 1)
    /\ UNCHANGED fetch_table
    /\ UNCHANGED notFetch

FetchNext ==
    \/ \E resource_id \in 1..(MaxStored + 1) : GetResource(resource_id)
    \/ \E outcome \in SearchOutcomes(fetch_table), single \in BOOLEAN :
           SearchCollection(outcome, single)

(***************************************************************************)
(* Routing (manager.py, APIManager.create_api_blueprint)                   *)
(***************************************************************************)

\* the most articles the relationship `articles` of a person holds
MaxLinked == 2

READONLY_METHODS == {"GET"}

WRITEONLY_METHODS == {"PATCH", "POST", "DELETE"}

ALL_METHODS == READONLY_METHODS \cup WRITEONLY_METHODS

\* A URL is the sequence of its segments; a segment of a rule written
\* <name> is a variable, which matches any one segment.
UrlVariables == {"<resource_id>", "<relation_name>", "<related_resource_id>"}

collection_url(name) == <<name>>

resource_url(name) == collection_url(name) \o <<"<resource_id>">>

related_resource_url(name) == resource_url(name) \o <<"<relation_name>">>

to_many_resource_url(name) == related_resource_url(name) \o <<"<related_resource_id>">>

relationship_url(name) == resource_url(name) \o <<"relationships", "<relation_name>">>

\* add_rule(url, methods=.., view_func=..)
Rule(url, methods, view_func) == [url |-> url, methods |-> methods, view_func |-> view_func]

\* relationship_methods: when PATCH is allowed, the other writes are allowed
\* on relationship URLs too
relationship_methods(methods) ==
    (READONLY_METHODS \cap methods) \cup (IF "PATCH" \in methods THEN WRITEONLY_METHODS ELSE {})

\* mutant: the related resource URL is routed for every method of the API
related_resource_methods_Mutant(methods) == ALL_METHODS \cap methods

\* related_resource_methods = READONLY_METHODS & methods
related_resource_methods(methods) == READONLY_METHODS \cap methods

\* the rules create_api_blueprint adds for a collection, in the order it
\* adds them (allow_functions left at its default, False)
UrlRules(name, methods) ==
    << Rule(relationship_url(name), relationship_methods(methods), "relationship_api_view"),
       Rule(collection_url(name), {"POST"} \cap methods, "api_view"),
       Rule(collection_url(name), {"GET"} \cap methods, "api_view"),
       Rule(resource_url(name), {"DELETE", "PATCH"} \cap methods, "api_view"),
       Rule(resource_url(name), READONLY_METHODS \cap methods, "api_view"),
       Rule(related_resource_url(name), related_resource_methods(methods), "api_view"),
       Rule(to_many_resource_url(name), READONLY_METHODS \cap methods, "api_view") >>

\* whether the URL of a request matches the URL of a rule
Matches(path, url) ==
    /\ Len(path) = Len(url)
    /\ \A i \in DOMAIN url : url[i] \in UrlVariables \/ url[i] = path[i]

\* The routing of the web framework: the first rule, in the order added,
\* that matches the URL and allows the method serves the request; a URL
\* that rules match for other methods only is answered 405, a URL no rule
\* matches 404.
Dispatch(rules, path, method) ==
    LET matching == {i \in DOMAIN rules : Matches(path, rules[i].url)}
        serving == {i \in matching : method \in rules[i].methods}
    IN IF serving # {}
       THEN [view_func |-> Some(rules[CHOOSE i \in serving : \A j \in serving : i <= j].view_func),
             status |-> None]
       ELSE IF matching # {} THEN [view_func |-> None, status |-> Some(405)]
       ELSE [view_func |-> None, status |-> Some(404)]

\* the articles a request document names
LinkedArticles == 1..MaxLinked

\* What the view function leaves of the relationship `articles` of person
\* 1 when the document names the articles `ids`: on a relationship URL POST
\* adds them, DELETE removes them and PATCH replaces the relationship by
\* them; PATCH on the resource URL replaces the relationships the document
\* carries; nothing else reaches a relationship.
ViewEffect(view_func, path, method, ids, before) ==
    IF view_func = Some("relationship_api_view")
    THEN IF method = "POST" THEN before \cup ids
         ELSE IF method = "DELETE" THEN before \ ids
         ELSE IF method = "PATCH" THEN ids
         ELSE before
    ELSE IF view_func = Some("api_view") /\ method = "PATCH" /\ Len(path) = 2 THEN ids
    ELSE before

\* the URLs the requests are made to
RequestPaths ==
    { <<"person">>, <<"person", "1">>, <<"person", "1", "articles">>,
      <<"person", "1", "relationships">>, <<"person", "1", "articles", "1">>,
      <<"person", "1", "relationships", "articles">>, <<"article", "1", "author">> }

NoRouting == [path |-> <<>>, method |-> "", view_func |-> None, status |-> None, before |-> {}]

RouteInit ==
    /\ routes = <<>>
    /\ linked \in SUBSET LinkedArticles
    /\ route_response = NoRouting

\* no blueprint when another subsystem runs
RouteIdle ==
    /\ routes = <<>>
    /\ linked = {}
    /\ route_response = NoRouting

\* create_api_blueprint(name, Person, methods=methods): the URL rules
CreateApiBlueprint(methods) ==
    /\ routes = <<>>
    /\ routes' = UrlRules("person", methods)
    /\ UNCHANGED <<linked, route_response>>
    /\ UNCHANGED notRoute

\* a request to the application the blueprint is registered on
Request(path, method, ids) ==
    /\ routes # <<>>
    /\ LET routed == Dispatch(routes, path, method) IN
       /\ route_response' = [path |-> path, method |-> method, view_func |-> routed.view_func,
                             status |-> routed.status, before |-> linked]
       /\ linked' = ViewEffect(routed.view_func, path, method, ids, linked)
    /\ UNCHANGED routes
    /\ UNCHANGED notRoute

RouteNext ==
    \/ \E methods \in SUBSET ALL_METHODS : CreateApiBlueprint(methods)
    \/ \E path \in RequestPaths, method \in ALL_METHODS, ids \in SUBSET LinkedArticles :
           Request(path, method, ids)

(***************************************************************************)
(* Registry (manager.py, APIManager.create_api, init_app, model_for)       *)
(***************************************************************************)

\* the most create_api calls made on a manager
MaxApis == 2

\* the most init_app calls made on a manager
MaxInits == 2

\* the Flask applications
Apps == {"app1", "app2"}

\* the models APIs are created for; model.__table__.name is the name of the
\* model
ApiModels == {"person", "article"}

\* the collection_name argument of create_api: None, '' or a name
CollectionNameArgs == {None, Some(""), Some("people"), Some("article")}

\* APIInfo(collection_name, blueprint.name, ..) under its key, the model
APIInfo(model, name, blueprint_name) ==
    [model |-> model, collection_name |-> name, blueprint_name |-> blueprint_name]

\* self.created_apis_for[model] = info: a dict keeps its keys in the order
\* they were first set; setting a key again keeps its place
SetItem(apis, info) ==
    IF \E i \in DOMAIN apis : apis[i].model = info.model
    THEN [i \in DOMAIN apis |-> IF apis[i].model = info.model THEN info ELSE apis[i]]
    ELSE Append(apis, info)

\* self.created_apis_for[model].collection_name, None for the KeyError
collection_name_of(apis, model) ==
    IF \E i \in DOMAIN apis : apis[i].model = model
    THEN Some(apis[CHOOSE i \in DOMAIN apis : apis[i].model = model].collection_name)
    ELSE None

\* model_for(collection_name): the dictionary reversed, where a later item
\* of the same collection name replaces an earlier one; None for the
\* ValueError
model_for(apis, name) ==
    LET having == {i \in DOMAIN apis : apis[i].collection_name = name} IN
    IF having = {} THEN None
    ELSE Some(apis[CHOOSE i \in having : \A j \in having : j <= i].model)

\* mutant: a blueprint is never registered when it is created
RegisterCreated_Mutant(app, reg, blueprint) == reg

\* if self.app is not None: self.app.register_blueprint(blueprint)
RegisterCreated(app, reg, blueprint) ==
    IF app # None THEN [reg EXCEPT ![app[1]] = Append(@, blueprint)] ELSE reg

RegInit ==
    /\ manager_app \in {None} \cup {Some(app) : app \in {"app1"}}
    /\ created_apis_for = <<>>
    /\ blueprints = <<>>
    /\ registered = [app \in Apps |-> <<>>]
    /\ inits = <<>>

\* a manager nothing was created on, when another subsystem runs
RegIdle ==
    /\ manager_app = None
    /\ created_apis_for = <<>>
    /\ blueprints = <<>>
    /\ registered = [app \in Apps |-> <<>>]
    /\ inits = <<>>

\* create_api(model, collection_name=name): create_api_blueprint under a
\* fresh blueprint name (uuid1), which raises IllegalArgumentError for ''
\* before anything is recorded; then the blueprint is stored, and
\* registered when the manager has an application
CreateApi(model, name) ==
    /\ Len(blueprints) < MaxApis
    /\ IF name = Some("")
       THEN UNCHANGED <<created_apis_for, blueprints, registered>>
       ELSE LET blueprint == Len(blueprints) + 1
                given == IF name = None THEN model ELSE name[1]
            IN /\ created_apis_for' = SetItem(created_apis_for, APIInfo(model, given, blueprint))
               /\ blueprints' = Append(blueprints, blueprint)
               /\ registered' = RegisterCreated(manager_app, registered, blueprint)
    /\ UNCHANGED <<manager_app, inits>>
    /\ UNCHANGED notReg

\* init_app(app): for blueprint in self.blueprints: app.register_blueprint(blueprint)
InitApp(app) ==
    /\ Len(inits) < MaxInits
    /\ registered' = [registered EXCEPT ![app] = @ \o blueprints]
    /\ inits' = Append(inits, [app |-> app, created |-> Len(blueprints)])
    /\ UNCHANGED <<manager_app, created_apis_for, blueprints>>
    /\ UNCHANGED notReg

RegNext ==
    \/ \E model \in ApiModels, name \in CollectionNameArgs : CreateApi(model, name)
    \/ \E app \in Apps : InitApp(app)

(***************************************************************************)
(* Specifications: one per subsystem, the others idle                      *)
(***************************************************************************)

InitPaginate == PagInit /\ SmIdle /\ IncIdle /\ SerIdle /\ DesIdle /\ PostIdle /\ FetchIdle
    /\ RouteIdle /\ RegIdle

SpecPaginate == InitPaginate /\ [][PagNext]_vars

InitSerializeMany == SmInit /\ PagIdle /\ IncIdle /\ SerIdle /\ DesIdle /\ PostIdle /\ FetchIdle
    /\ RouteIdle /\ RegIdle

SpecSerializeMany == InitSerializeMany /\ [][SmNext]_vars

InitInclusions == IncInit /\ PagIdle /\ SmIdle /\ SerIdle /\ DesIdle /\ PostIdle /\ FetchIdle
    /\ RouteIdle /\ RegIdle

SpecInclusions == InitInclusions /\ [][IncNext]_vars

\* the generator is run to its end by the caller (set(chain.from_iterable(..)))
\* and nothing else runs beside it: a step that can be taken is taken
SpecInclusionsFair == InitInclusions /\ [][IncNext]_vars /\ WF_vars(IncNext)

InitSerialize == SerInit /\ PagIdle /\ SmIdle /\ IncIdle /\ DesIdle /\ PostIdle /\ FetchIdle
    /\ RouteIdle /\ RegIdle

SpecSerialize == InitSerialize /\ [][SerNext]_vars

InitDeserialize == DesInit /\ PagIdle /\ SmIdle /\ IncIdle /\ SerIdle /\ PostIdle /\ FetchIdle
    /\ RouteIdle /\ RegIdle

SpecDeserialize == InitDeserialize /\ [][DesNext]_vars

InitPost ==
    PostInit /\ PagIdle /\ SmIdle /\ IncIdle /\ SerIdle /\ DesIdle /\ FetchIdle
    /\ RouteIdle /\ RegIdle

SpecPost == InitPost /\ [][PostNext]_vars

InitFetch ==
    FetchInit /\ PagIdle /\ SmIdle /\ IncIdle /\ SerIdle /\ DesIdle /\ PostIdle
    /\ RouteIdle /\ RegIdle

SpecFetch == InitFetch /\ [][FetchNext]_vars

InitRoute ==
    RouteInit /\ PagIdle /\ SmIdle /\ IncIdle /\ SerIdle /\ DesIdle /\ PostIdle
    /\ FetchIdle /\ RegIdle

SpecRoute == InitRoute /\ [][RouteNext]_vars

InitRegistry ==
    RegInit /\ PagIdle /\ SmIdle /\ IncIdle /\ SerIdle /\ DesIdle /\ PostIdle
    /\ FetchIdle /\ RouteIdle

SpecRegistry == InitRegistry /\ [][RegNext]_vars

(***************************************************************************)
(* Pagination: properties                                                  *)
(***************************************************************************)

\* paginate returned a page (it did not raise) for a positive page size
ReturnedPage == paginated.kind = "paginated" /\ page_size > 0

\* the walk fetched page 1 and every page up to the last one it was told of
WalkComplete == page_size > 0 /\ walk > 1 /\ walk > walk_last

\* C1: for a page size > 0 the items of pages 1, 2, ..., last, concatenated,
\* are exactly the rows of the query in order: no row is missing, none is
\* repeated.
C1_PagesCoverResult == WalkComplete => collected = All(query)

\* C8: for a page size s > 0 and n matching rows paginate returns first = 1
\* and last = ceil(n / s), and last = 1 when n = 0.
C8_FirstAndLast ==
    ReturnedPage =>
        /\ paginated.first = Some(1)
        /\ paginated.last = Some(IF Len(All(query)) = 0 THEN 1
                                 ELSE Ceil(Len(All(query)), page_size))

\* C9: for a page number >= 1 and a page size >= 0 the num_results paginate
\* returns is the number of rows the query matches, whether it came from the
\* page-1 shortcut or from the count query.
C9_TotalIsRowCount ==
    (paginated.kind = "paginated" /\ page_number >= 1) =>
        paginated.num_results = Len(All(query))

C11_PaginationDisabled ==
    (paginated.kind \notin {"none", "BadRequest"} /\ page_size = 0) =>
        /\ paginated.kind = "paginated"
        /\ paginated.items = All(query)
        /\ paginated.first = None
        /\ paginated.last = None
        /\ paginated.prev = None
        /\ paginated.next_ = None

\* C11 witness: page 3 was requested of a query of several rows with
\* pagination disabled, and all the rows came back
C11_Witness ==
    /\ page_size = 0
    /\ page_number = 3
    /\ paginated.kind = "paginated"
    /\ Len(paginated.items) = MaxRows

\* C29: for a page number of 1 or more and a page size above 0, a prev or a
\* next that paginate returns is a page number between first and last.
C29_LinksWithinRange ==
    (ReturnedPage /\ page_number >= 1) =>
        /\ paginated.prev # None =>
              /\ paginated.first[1] <= paginated.prev[1]
              /\ paginated.prev[1] <= paginated.last[1]
        /\ paginated.next_ # None =>
              /\ paginated.first[1] <= paginated.next_[1]
              /\ paginated.next_[1] <= paginated.last[1]

RECURSIVE FailingUpTo(_)
FailingUpTo(n) ==
    IF n = 0 THEN <<>>
    ELSE IF instances[n] = "SerializationException"
         THEN Append(FailingUpTo(n - 1), n)
         ELSE FailingUpTo(n - 1)

\* serialize_many ended by its own return or raise: no instance raised an
\* exception other than SerializationException, which it does not catch
SmEnded == sm_outcome.kind \in {"return", "MultipleExceptions"}

\* C5: serialize_many calls the serializer on every instance, also after one
\* raised SerializationException; if k >= 1 instances raised it, the call
\* raises one MultipleExceptions holding exactly those k exceptions in
\* collection order and returns no list; if none did, it returns one
\* resource object per instance in collection order.
C5_SerializeMany ==
    SmEnded =>
        /\ sm_attempted = [i \in 1..Len(instances) |-> i]
        /\ (FailingUpTo(Len(instances)) # <<>> =>
                /\ sm_outcome.kind = "MultipleExceptions"
                /\ sm_outcome.errors = [j \in 1..Len(FailingUpTo(Len(instances))) |->
                        [exception |-> "SerializationException",
                         instance |-> FailingUpTo(Len(instances))[j]]]
                /\ sm_outcome.result = None)
        /\ (FailingUpTo(Len(instances)) = <<>> =>
                /\ sm_outcome.kind = "return"
                /\ sm_outcome.result = Some([i \in 1..Len(instances) |->
                        [type |-> "person", id |-> i]]))

\* the first and the last of three or more instances raise, one in between
\* serializes: the call went on after the first failure and raised both
C5_Witness ==
    /\ SmEnded
    /\ Len(instances) >= 3
    /\ instances[1] = "SerializationException"
    /\ instances[2] = "ok"
    /\ instances[Len(instances)] = "SerializationException"
    /\ Len(sm_outcome.errors) >= 2

(***************************************************************************)
(* Inclusion resolver: properties                                          *)
(***************************************************************************)

\* the instances related by `rel` to an instance of S
Follow(S, rel) == UNION {graph[o][rel] : o \in S}

\* the instances reached from S by following the relationships of `path`
RECURSIVE ReachedBy(_, _)
ReachedBy(S, path) ==
    IF path = <<>> THEN S ELSE ReachedBy(Follow(S, Head(path)), Tail(path))

\* the instances reachable from a root along a non-empty prefix of one of
\* the include paths
Reachable ==
    UNION { UNION {ReachedBy(roots, SubSeq(path, 1, k)) : k \in 1..Len(path)} : path \in include }

\* C3: the resolver returns exactly the instances reachable from a root
\* along a non-empty prefix of an include path: the resources of the
\* intermediate hops as well as the terminal ones, and nothing else.
C3_InclusionsAreReachable == inc_pc = "done" => inc_result = Reachable

\* a three-hop path whose first, second and third hop each contribute a
\* resource: article -> author -> articles -> comments
C3_Witness ==
    /\ inc_pc = "done"
    /\ <<"author", "articles", "comments">> \in include
    /\ roots = {"a2"}
    /\ "p1" \in inc_result
    /\ "a1" \in inc_result
    /\ "c1" \in inc_result

\* the place of a node in the order the relationships were read in
PlaceOf(node) == CHOOSE i \in DOMAIN inc_trace : inc_trace[i] = node

\* the nodes read so far
Read == {inc_trace[i] : i \in DOMAIN inc_trace}

\* the node whose dictionary holds the node
Parent(node) == SubSeq(node, 1, Len(node) - 1)

NoNodeTwice ==
    \A i, j \in DOMAIN inc_trace : i # j => inc_trace[i] # inc_trace[j]

\* C27: for every set of include paths and every object graph, cyclic ones
\* included, the resolver comes to its end, and it reads each node of the
\* inclusion tree at most once.
C27_TerminatesOnce == [](NoNodeTwice /\ inc_pc # "error") /\ <>(inc_pc = "done")

\* the path article -> author -> articles -> author comes back to the root
\* article and to its author, and the resolver has ended after three reads
C27_Witness ==
    /\ inc_pc = "done"
    /\ include = {<<"author", "articles", "author">>}
    /\ roots = {"a1"}
    /\ graph["a1"]["author"] = {"p1"}
    /\ inc_result = {"p1", "a1"}
    /\ Len(inc_trace) = 3

\* the nodes of the inclusion tree at which no instance is reached from the
\* roots: a null to-one or an empty to-many relationship was met on the way
EmptyNodes == {node \in InclusionTree(include) : ReachedBy(roots, node) = {}}

\* C17: a null to-one or an empty to-many relationship met while following
\* an include path raises no error and puts no null among the resources;
\* the part of the path below it is not followed, and what every root
\* reaches along every prefix of every path is still returned.
C17_NullBranchRaisesNothing ==
    /\ inc_pc # "error"
    /\ inc_result \subseteq Objects
    /\ \A i \in DOMAIN inc_trace : \A node \in EmptyNodes :
          ~(Len(inc_trace[i]) > Len(node)
            /\ SubSeq(inc_trace[i], 1, Len(node)) = node)
    /\ inc_pc = "done" =>
          \A path \in include : \A k \in 1..Len(path) : \A r \in roots :
              ReachedBy({r}, SubSeq(path, 1, k)) \subseteq inc_result

\* root a1 has no author and root a2 no comments; a2's author, the articles
\* of that author and a1's comment are returned
C17_Witness ==
    /\ inc_pc = "done"
    /\ roots = {"a1", "a2"}
    /\ include = {<<"author", "articles">>, <<"comments">>}
    /\ graph["a1"]["author"] = {}
    /\ graph["a2"]["comments"] = {}
    /\ \E i \in DOMAIN inc_trace : inc_trace[i] = <<"author", "articles">>
    /\ inc_result = {"p1", "a2", "c1"}

(***************************************************************************)
(* Default serializer: properties                                          *)
(***************************************************************************)

\* the names under `attributes` of a resource object
RenderedAttributes(resource) ==
    IF "attributes" \in DOMAIN resource THEN DOMAIN resource.attributes ELSE {}

\* the names under `relationships` of a resource object
RenderedRelationships(resource) ==
    IF "relationships" \in DOMAIN resource THEN DOMAIN resource.relationships ELSE {}

\* C4: for any `only` set passed to serialize, the attribute names rendered
\* are exactly the serializer's attribute columns that `only` lists and the
\* relationship names rendered are exactly its relationships that `only`
\* lists; id and type are present whether or not `only` lists them, and no
\* field outside `only` appears.
C4_SparseFieldset ==
    (ser_resource.kind = "resource" /\ ser_only # None) =>
        LET resource == ser_resource.resource IN
        /\ RenderedAttributes(resource) = SerializerColumns(serializer) \cap ser_only[1]
        /\ RenderedRelationships(resource) = SerializerRelations(serializer) \cap ser_only[1]
        /\ {"id", "type"} \subseteq DOMAIN resource
        /\ RenderedAttributes(resource) \cup RenderedRelationships(resource) \subseteq ser_only[1]
        /\ DOMAIN resource \subseteq {"id", "type", "attributes", "relationships", "links"}
        /\ "links" \in DOMAIN resource => "self" \in ser_only[1]

\* C4 witness: a call whose `only` lists neither id nor type, keeps an
\* attribute and a relationship and drops an attribute and a relationship
\* the serializer would otherwise render.
C4_Witness ==
    /\ ser_resource.kind = "resource"
    /\ ser_only # None
    /\ ser_only[1] \cap {"id", "type"} = {}
    /\ RenderedAttributes(ser_resource.resource) # {}
    /\ RenderedRelationships(ser_resource.resource) # {}
    /\ SerializerColumns(serializer) \ ser_only[1] # {}
    /\ SerializerRelations(serializer) \ ser_only[1] # {}

\* C18: every resource object has `type` and has `id` equal to the string
\* form of the value of the primary key, whatever the name and the type of
\* the primary key; it has `attributes` exactly when an attribute is
\* rendered and `relationships` exactly when a relationship is rendered.
C18_ResourceObject ==
    ser_resource.kind = "resource" =>
        LET resource == ser_resource.resource
            pk_value == IF serializer.model = "tag" THEN ser_instance.attrs["name"]
                        ELSE ser_instance.attrs["id"]
        IN /\ {"id", "type"} \subseteq DOMAIN resource
           /\ resource.type = serializer.model
           /\ resource.id = pk_value.v
           /\ "attributes" \in DOMAIN resource <=> SparseColumns(serializer, ser_only) # {}
           /\ "attributes" \in DOMAIN resource => DOMAIN resource.attributes # {}
           /\ "relationships" \in DOMAIN resource
                  <=> SparseRelations(serializer, ser_only) # {}
           /\ "relationships" \in DOMAIN resource => DOMAIN resource.relationships # {}

\* a tag, whose primary key is its name and whose id column holds 1: the
\* resource has the name as id, attributes and no relationships
C18_Witness ==
    /\ ser_resource.kind = "resource"
    /\ serializer.model = "tag"
    /\ ser_instance.attrs["id"] = PyInt("1")
    /\ ser_resource.resource.id = "foo"
    /\ "attributes" \in DOMAIN ser_resource.resource
    /\ "relationships" \notin DOMAIN ser_resource.resource

\* a resource identifier of the related instance, with id and type only
IdentifierOf(identifier, related) ==
    /\ DOMAIN identifier = {"id", "type"}
    /\ identifier.id = Some(StrOf(related.pk))
    /\ identifier.type = Some(related.model)

\* C19: the `data` of a rendered to-many relationship is the list of the
\* resource identifiers of the related instances, the empty list and not
\* null when there is none; the `data` of a to-one relationship is the
\* resource identifier of the related instance, or null when there is none.
C19_RelationshipData ==
    ser_resource.kind = "resource" =>
        \A rel \in RenderedRelationships(ser_resource.resource) :
            LET data == ser_resource.resource.relationships[rel].data
                related == ser_instance.rels[rel]
            IN IF rel = "comments"
               THEN /\ data.k = "many"
                    /\ Len(data.items) = Len(related)
                    /\ \A i \in DOMAIN related : IdentifierOf(data.items[i], related[i])
               ELSE IF related = <<>>
               THEN data = Linkage("null", <<>>)
               ELSE /\ data.k = "one"
                    /\ Len(data.items) = 1
                    /\ IdentifierOf(data.items[1], related[1])

\* an article without comments and with an author: the comments are
\* rendered as the empty list, the author as one resource identifier
C19_Witness ==
    /\ ser_resource.kind = "resource"
    /\ ser_instance.rels["comments"] = <<>>
    /\ ser_instance.rels["author"] # <<>>
    /\ RenderedRelationships(ser_resource.resource) = {"author", "comments"}
    /\ ser_resource.resource.relationships["comments"].data = Linkage("many", <<>>)
    /\ ser_resource.resource.relationships["author"].data.k = "one"

\* the URL of a resource: prefix, collection name and the primary key
ResourceUrl(resource) == <<"/api", resource.type, resource.id>>

\* C30: the URLs the serializer makes with url_for for an instance are the
\* URL of that resource and, for a relationship, the relationship URL and
\* the related-resource URL of that resource, never the URL of the
\* collection, whatever the primary key value, 0 and '' included.
C30_ResourceUrls ==
    ser_resource.kind = "resource" =>
        LET resource == ser_resource.resource IN
        /\ "links" \in DOMAIN resource =>
              resource.links.self = <<"http://localhost">> \o ResourceUrl(resource)
        /\ \A rel \in RenderedRelationships(resource) :
              "links" \in DOMAIN resource.relationships[rel] =>
                 /\ resource.relationships[rel].links.self
                       = ResourceUrl(resource) \o <<"relationships", rel>>
                 /\ resource.relationships[rel].links.related
                       = ResourceUrl(resource) \o <<rel>>

\* C20: for every configuration the constructor accepts, the attribute
\* names and the relationship names of the serializer are disjoint, and
\* neither `id` nor `type` is among them; the same holds of the names in a
\* resource object the serializer renders.
C20_DisjointFieldNames ==
    ser_resource.kind = "resource" =>
        /\ SerializerColumns(serializer) \cap SerializerRelations(serializer) = {}
        /\ (SerializerColumns(serializer) \cup SerializerRelations(serializer))
               \cap {"id", "type"} = {}
        /\ RenderedAttributes(ser_resource.resource)
               \cap RenderedRelationships(ser_resource.resource) = {}
        /\ (RenderedAttributes(ser_resource.resource)
               \cup RenderedRelationships(ser_resource.resource)) \cap {"id", "type"} = {}

(***************************************************************************)
(* Default deserializer: properties                                        *)
(***************************************************************************)

\* deserialize was called on the document
Deserialized == des_outcome # NotCalled

\* a resource identifier that lacks id or type, or whose type is not the
\* type of the related model
FlawedIdentifier(relation, rid) ==
    \/ rid.id = None
    \/ rid.type = None
    \/ rid.type[1] # collection_name(RelatedModel("article", relation))

\* a relationship object that lacks data or holds a flawed identifier
FlawedLink(relation, link) ==
    \/ ~link.has_data
    \/ \E i \in DOMAIN link.data.items : FlawedIdentifier(relation, link.data.items[i])

\* The conditions of the validation sequence a document violates, by their
\* place in the sequence: 1 no data, 2 no type, 3 an id where the client may
\* not give one, 4 a type other than the model's, 5 a key under relationships
\* that names no relationship or a key under attributes that names no
\* column, 6 a flawed relationship object.
Violated(doc, allow_ids) ==
    {n \in 1..6 :
        CASE n = 1 -> ~doc.has_data
          [] n = 2 -> doc.has_data /\ doc.type = None
          [] n = 3 -> doc.id # None /\ ~allow_ids
          [] n = 4 -> doc.type # None /\ doc.type[1] # collection_name("article")
          [] n = 5 -> \/ DOMAIN doc.relationships \ Relationships("article") # {}
                      \/ DOMAIN doc.attributes \ ColumnAttrs("article") # {}
          [] n = 6 -> \E relation \in DOMAIN doc.relationships \cap Relationships("article") :
                          FlawedLink(relation, doc.relationships[relation])}

\* the errors that report the n-th condition
ErrorsOf(n) ==
    CASE n = 1 -> {"MissingData"}
      [] n = 2 -> {"MissingType"}
      [] n = 3 -> {"ClientGeneratedIDNotAllowed"}
      [] n = 4 -> {"ConflictingType"}
      [] n = 5 -> {"UnknownRelationship", "UnknownAttribute"}
      [] n = 6 -> {"MissingData", "MissingID", "MissingType", "ConflictingType"}

\* the earliest of the conditions a document violates
Earliest(violated) == CHOOSE n \in violated : \A m \in violated : n <= m

\* C2: deserialize applies its checks in the order missing data, missing
\* type, client-supplied id when disallowed, conflicting type, unknown
\* relationship or attribute keys, per-relationship linkage checks: a
\* document that violates some of them is rejected with the error of the
\* earliest one it violates (scoped to a relationship exactly when it is a
\* linkage check), and no instance is constructed for a document rejected
\* with one of these errors.
C2_ChecksInOrder ==
    Deserialized =>
        LET violated == Violated(document, allow_client_generated_ids) IN
        /\ violated # {} =>
              /\ des_outcome.kind = "raised"
              /\ des_outcome.exception.kind \in ErrorsOf(Earliest(violated))
              /\ (des_outcome.exception.relation_name # None) <=> (Earliest(violated) = 6)
        /\ (des_outcome.kind = "raised"
            /\ des_outcome.exception.kind \in DeserializationExceptions) =>
              ~des_outcome.constructed

\* C7: serializing the instance deserialize returned for a create document
\* gives every attribute the document supplied with the value supplied, and
\* every relationship the document supplied with the linkage supplied (the
\* type and id of each related resource, to-one and to-many).
C7_RoundTrip ==
    des_resource.kind = "resource" =>
        LET resource == des_resource.resource IN
        /\ \A attribute \in DOMAIN document.attributes :
              /\ attribute \in RenderedAttributes(resource)
              /\ resource.attributes[attribute] = document.attributes[attribute]
        /\ \A relation \in DOMAIN document.relationships :
              /\ relation \in RenderedRelationships(resource)
              /\ resource.relationships[relation].data = document.relationships[relation].data

\* the document passes the checks on data, type and id
PassesDocumentChecks == Violated(document, allow_client_generated_ids) \cap 1..4 = {}

\* the keys under relationships that name no relationship of the model
UnknownRelationships(doc) == DOMAIN doc.relationships \ Relationships("article")

\* the keys under attributes that name no settable field of the model: no
\* column, or a hybrid property without a setter
UnknownAttributes(doc) == DOMAIN doc.attributes \ ColumnAttrs("article")

\* C13: for a create document that passes the checks before, a key under
\* relationships that names no relationship of the model, or a key under
\* attributes that names no settable field (a hybrid property without a
\* setter included), makes deserialize raise UnknownRelationship or
\* UnknownAttribute naming such a key.
C13_UnknownKeys ==
    (/\ Deserialized
     /\ PassesDocumentChecks
     /\ UnknownRelationships(document) \cup UnknownAttributes(document) # {}) =>
        /\ des_outcome.kind = "raised"
        /\ \/ /\ des_outcome.exception.kind = "UnknownRelationship"
              /\ des_outcome.exception.field \in
                     {Some(relation) : relation \in UnknownRelationships(document)}
           \/ /\ des_outcome.exception.kind = "UnknownAttribute"
              /\ des_outcome.exception.field \in
                     {Some(attribute) : attribute \in UnknownAttributes(document)}

\* The errors the flaws of a relationship object call for: MissingData for
\* an object without data, MissingID and MissingType for a resource
\* identifier without id or type.
MissingOf(link) ==
    IF ~link.has_data THEN {"MissingData"}
    ELSE UNION {(IF link.data.items[i].id = None THEN {"MissingID"} ELSE {})
                \cup (IF link.data.items[i].type = None THEN {"MissingType"} ELSE {})
                : i \in DOMAIN link.data.items}

\* a resource identifier of the relationship object names another type
\* than the related model's
Conflicting(relation, link) ==
    /\ link.has_data
    /\ \E i \in DOMAIN link.data.items :
          /\ link.data.items[i].type # None
          /\ link.data.items[i].type[1] # collection_name(RelatedModel("article", relation))

\* C14: for a create document that passes the checks before, a
\* relationship object without data makes deserialize raise MissingData,
\* and a resource identifier (the one of a to-one linkage, any of a to-many
\* list) without id or type makes it raise MissingID or MissingType, each
\* carrying the name of the relationship it occurred in; a conflicting type
\* met first in the same document is reported instead.
C14_MissingInLinkage ==
    (/\ Deserialized
     /\ Violated(document, allow_client_generated_ids) \cap 1..5 = {}
     /\ \E relation \in DOMAIN document.relationships :
            MissingOf(document.relationships[relation]) # {}) =>
        /\ des_outcome.kind = "raised"
        /\ \/ \E relation \in DOMAIN document.relationships :
                 /\ des_outcome.exception.kind \in MissingOf(document.relationships[relation])
                 /\ des_outcome.exception.relation_name = Some(relation)
           \/ /\ des_outcome.exception.kind = "ConflictingType"
              /\ \E relation \in DOMAIN document.relationships :
                     Conflicting(relation, document.relationships[relation])

\* the status the request is answered with when deserialize raises
StatusOf(exception) == IF exception.kind = "ConflictingType" THEN 409 ELSE 400

\* C15: a ConflictingType error reports as expected_type the collection
\* name of the target model (of the related model, for a linkage object),
\* as given_type the type the client sent and, for a linkage object, as
\* relation_name the name of the relationship; the answer is 409.
C15_ConflictingTypeFields ==
    (Deserialized /\ des_outcome.kind = "raised"
     /\ des_outcome.exception.kind = "ConflictingType") =>
        /\ StatusOf(des_outcome.exception) = 409
        /\ IF 4 \in Violated(document, allow_client_generated_ids)
           THEN /\ des_outcome.exception.expected_type = Some(collection_name("article"))
                /\ des_outcome.exception.given_type = document.type
                /\ des_outcome.exception.relation_name = None
           ELSE \E relation \in DOMAIN document.relationships \cap Relationships("article") :
                \E i \in DOMAIN document.relationships[relation].data.items :
                    LET rid == document.relationships[relation].data.items[i] IN
                    /\ rid.type # None
                    /\ rid.type[1] # collection_name(RelatedModel("article", relation))
                    /\ des_outcome.exception.relation_name = Some(relation)
                    /\ des_outcome.exception.expected_type =
                           Some(collection_name(RelatedModel("article", relation)))
                    /\ des_outcome.exception.given_type = rid.type

\* C16: deserialize leaves the input document as it was given, whether it
\* returns an instance or raises a validation error (the session is only
\* read, through get_by).
C16_InputDocumentUnchanged ==
    (Deserialized /\ (des_outcome.kind = "returned"
                      \/ des_outcome.exception.kind \in DeserializationExceptions)) =>
        des_outcome.document = document

\* C28: a create document that is valid and whose only relationship is a
\* to-one relationship with `data` null is deserialized into an instance on
\* which that relationship is None; no error is raised.
C28_NullToOne ==
    (/\ Deserialized
     /\ document.has_data
     /\ document.type = Some("article")
     /\ (document.id = None \/ allow_client_generated_ids)
     /\ DOMAIN document.attributes \subseteq {"title"}
     /\ DOMAIN document.relationships = {"author"}
     /\ document.relationships["author"] = Link(Linkage("null", <<>>)))
    => /\ des_outcome.kind = "returned"
       /\ des_outcome.instance[1].rels["author"] = <<>>

(***************************************************************************)
(* Creating resources: properties                                          *)
(***************************************************************************)

\* the i-th request was well-formed and repeated no unique name
ValidPost(i) == post_log[i].name \notin NamesOf(post_log[i].before)

\* C6: after a POST is answered 409 for an integrity violation the
\* transaction has been rolled back and the session is active: the rejected
\* resource is neither stored nor pending, and every later valid POST on
\* the session is answered 201.
C6_RollbackOnIntegrityError ==
    \A i \in DOMAIN post_log :
        post_log[i].status = 409 =>
            /\ post_log[i].is_active
            /\ post_log[i].after = post_log[i].before
            /\ post_log[i].new = {}
            /\ \A j \in DOMAIN post_log :
                  (j > i /\ ValidPost(j)) =>
                      /\ post_log[j].status = 201
                      /\ post_log[j].name \in NamesOf(post_log[j].after)

\* C6 witness: a POST answered 409, then a valid one answered 201
C6_Witness ==
    \E i, j \in DOMAIN post_log :
        /\ i < j
        /\ post_log[i].status = 409
        /\ ValidPost(j)
        /\ post_log[j].status = 201

(***************************************************************************)
(* Fetching: properties                                                    *)
(***************************************************************************)

\* the latest fetch was a collection search whose query could not be built
ConstructionFailed ==
    fetch_request.view = "get_collection" /\ fetch_request.search.kind # "query"

NothingToReturn ==
    \/ fetch_request.view = "get_resource" /\ fetch_request.resource_id \notin fetch_table
    \/ /\ fetch_request.view = "get_collection"
       /\ fetch_request.single
       /\ fetch_request.search.kind = "query"
       /\ Cardinality(fetch_request.search.rows) # 1

\* C22: get_resource for an id no stored resource has raises NotFound (404);
\* a single-result search matching no row or several rows raises NotFound
\* (404); neither returns a document with `data`.
C22_NotFound ==
    NothingToReturn =>
        /\ fetch_response.kind = "raised"
        /\ fetch_response.exception.kind = "NotFound"
        /\ fetch_response.exception.status_code = 404
        /\ ~fetch_response.has_data

\* a single-result search matched two of three stored rows
C22_Witness ==
    /\ fetch_table = 1..3
    /\ fetch_request.view = "get_collection"
    /\ fetch_request.single
    /\ fetch_request.search.rows = {2, 3}
    /\ fetch_response.exception = NotFound(<<"Multiple results found">>)

(***************************************************************************)
(* Routing: properties                                                     *)
(***************************************************************************)

\* the latest request wrote to a URL /<type>/<id>/<relation>
WroteToRelatedResourceUrl ==
    /\ Matches(route_response.path, related_resource_url("person"))
    /\ route_response.method \in WRITEONLY_METHODS

\* C23: whatever `methods` the API was created with, no rule of the
\* related resource URL allows POST, PATCH or DELETE; such a request is
\* answered 405 and leaves the relationship as it was; and a write to a URL
\* that names a relation is served by a view function only when the URL is
\* /<type>/<id>/relationships/<relation>.
C23_RelatedResourceUrlReadOnly ==
    /\ \A i \in DOMAIN routes :
           routes[i].url = related_resource_url("person") =>
               routes[i].methods \cap WRITEONLY_METHODS = {}
    /\ WroteToRelatedResourceUrl =>
           /\ route_response.status = Some(405)
           /\ linked = route_response.before
    /\ (/\ Len(route_response.path) >= 3
        /\ route_response.method \in WRITEONLY_METHODS
        /\ route_response.view_func # None) =>
           /\ Matches(route_response.path, relationship_url("person"))
           /\ route_response.view_func = Some("relationship_api_view")

\* an API created with every method answered 405 to a POST on the related
\* resource URL of a person that has an article, and the article stayed
C23_Witness ==
    /\ routes = UrlRules("person", ALL_METHODS)
    /\ route_response.path = <<"person", "1", "articles">>
    /\ route_response.method = "POST"
    /\ route_response.status = Some(405)
    /\ linked = {1}

(***************************************************************************)
(* Registry: properties                                                    *)
(***************************************************************************)

\* the models and the collection names created_apis_for holds
RegisteredApiModels == {created_apis_for[i].model : i \in DOMAIN created_apis_for}

RegisteredCollectionNames == {created_apis_for[i].collection_name : i \in DOMAIN created_apis_for}

\* C24: after any sequence of create_api calls, model_for(collection_name(M))
\* is M for every registered model M, and collection_name(model_for(c)) is c
\* for every registered collection name c.
C24_ModelForInverse ==
    /\ \A model \in RegisteredApiModels :
           model_for(created_apis_for, collection_name_of(created_apis_for, model)[1]) = Some(model)
    /\ \A name \in RegisteredCollectionNames :
           collection_name_of(created_apis_for, model_for(created_apis_for, name)[1]) = Some(name)

\* the blueprints registered on an application
RegisteredOn(app) == Range(registered[app])

\* the blueprints some init_app(app) call found created
InitedOn(app) == UNION {1..inits[i].created : i \in {j \in DOMAIN inits : inits[j].app = app}}

\* C25: on a manager built without an application, a blueprint is
\* registered on an application only once init_app was called with that
\* application after the blueprint was created, and every init_app(app)
\* call registers on app all the blueprints created before it; on a manager
\* built with an application, every blueprint created is registered on it.
C25_Registration ==
    /\ manager_app = None => \A app \in Apps : RegisteredOn(app) = InitedOn(app)
    /\ \A app \in Apps : InitedOn(app) \subseteq RegisteredOn(app)
    /\ manager_app # None => Range(blueprints) \subseteq RegisteredOn(manager_app[1])

\* on a manager without an application one API was created, init_app(app1)
\* was called, and a second API was created: the first blueprint is
\* registered on app1, the second on no application
C25_Witness ==
    /\ manager_app = None
    /\ blueprints = <<1, 2>>
    /\ inits = <<[app |-> "app1", created |-> 1]>>
    /\ registered = [app \in Apps |-> IF app = "app1" THEN <<1>> ELSE <<>>]

====
